---- MODULE Spec2Model ----
(***************************************************************************)
(* Model of extract_chunks ("PDF chunking for legal acts"): the statistics *)
(* pass over the page layout, the recursive font property aggregation and  *)
(* the chunk segmentation loop.                                            *)
(*                                                                         *)
(* Strings are kept run-length encoded: a string is a sequence of runs     *)
(* [c |-> character, n |-> repetitions] in which adjacent runs carry       *)
(* different characters, so two strings are equal exactly when their       *)
(* encodings are equal and a text of 5001 characters is one run.           *)
(* Lengths (points, font sizes) are held as integers: font sizes in        *)
(* hundredths of a point, page coordinates in points.                      *)
(***************************************************************************)
EXTENDS Integers, Sequences, FiniteSets, TLC

\* ------------------------------------------------------------------ strings

SP == " "
NL == "\n"

Digits == {"0", "1", "2", "3", "4", "5", "6", "7", "8", "9"}

\* str.strip() and the regular expression class \s: the whitespace characters
IsWs(c) == c \in {SP, NL}

Run(c, n) == [c |-> c, n |-> n]

\* n copies of the character c
Rep(c, n) == IF n = 0 THEN <<>> ELSE <<Run(c, n)>>

\* s + t
Cat(s, t) ==
    IF s = <<>> THEN t
    ELSE IF t = <<>> THEN s
    ELSE IF s[Len(s)].c = t[1].c
         THEN SubSeq(s, 1, Len(s) - 1)
              \o <<Run(t[1].c, s[Len(s)].n + t[1].n)>>
              \o SubSeq(t, 2, Len(t))
         ELSE s \o t

RECURSIVE StrLen(_)
\* len(s)
StrLen(s) == IF s = <<>> THEN 0 ELSE s[1].n + StrLen(Tail(s))

RECURSIVE FromChars(_)
\* the string spelled by a sequence of characters
FromChars(cs) == IF cs = <<>> THEN <<>> ELSE Cat(Rep(cs[1], 1), FromChars(Tail(cs)))

RECURSIVE Chars(_)
\* the characters of s, one by one
Chars(s) ==
    IF s = <<>> THEN <<>>
    ELSE IF s[1].n = 1 THEN <<s[1].c>> \o Chars(Tail(s))
    ELSE <<s[1].c>> \o Chars(<<Run(s[1].c, s[1].n - 1)>> \o Tail(s))

RECURSIVE LStrip(_)
LStrip(s) == IF s # <<>> /\ IsWs(s[1].c) THEN LStrip(Tail(s)) ELSE s

RECURSIVE RStrip(_)
RStrip(s) ==
    IF s # <<>> /\ IsWs(s[Len(s)].c) THEN RStrip(SubSeq(s, 1, Len(s) - 1)) ELSE s

\* s.strip()
Strip(s) == RStrip(LStrip(s))

\* s.endswith((' ', '\n'))
EndsWithWs(s) == s # <<>> /\ s[Len(s)].c \in {SP, NL}

RECURSIVE SubWs(_)
\* re.sub(r'\s+', ' ', s): every maximal stretch of whitespace becomes one space
SubWs(s) ==
    IF s = <<>> THEN <<>>
    ELSE IF IsWs(s[1].c) THEN Cat(Rep(SP, 1), SubWs(LStrip(s)))
    ELSE Cat(<<s[1]>>, SubWs(Tail(s)))

\* re.sub(r'\s+', ' ', s).strip()
NormWs(s) == Strip(SubWs(s))

RECURSIVE CharAt(_, _)
\* s[i - 1]: the i-th character of s, 1 <= i <= len(s)
CharAt(s, i) == IF i <= s[1].n THEN s[1].c ELSE CharAt(Tail(s), i - s[1].n)

RECURSIVE Drop(_, _)
\* s[k:]
Drop(s, k) ==
    IF k = 0 \/ s = <<>> THEN s
    ELSE IF s[1].n <= k THEN Drop(Tail(s), k - s[1].n)
    ELSE <<Run(s[1].c, s[1].n - k)>> \o Tail(s)

RECURSIVE Take(_, _)
\* s[:k]
Take(s, k) ==
    IF k = 0 \/ s = <<>> THEN <<>>
    ELSE IF s[1].n <= k THEN <<s[1]>> \o Take(Tail(s), k - s[1].n)
    ELSE <<Run(s[1].c, k)>>

\* the characters i .. j of s (1-based, inclusive)
Sub(s, i, j) == Take(Drop(s, i - 1), j - i + 1)

\* Python's None where a string is expected: no string has a run of length 0
NoneStr == <<Run("None", 0)>>

\* ------------------------------------------------------- regular expressions
\* The patterns are the caller's.  A pattern is None, the empty string, a
\* string that does not compile, or an alternation of sequences of atoms: a
\* literal character, or (\d+) or (\d*) captured as group g (g = 0: not
\* captured).  A run of digits is always followed by a non-digit literal or
\* the end of the alternative, so the greedy match never has to give
\* characters back.

Lit(c) == [t |-> "lit", c |-> c, g |-> 0]
Num(g) == [t |-> "digits", c |-> "", g |-> g]
NumOpt(g) == [t |-> "digits0", c |-> "", g |-> g]

PatNone == [kind |-> "none", groups |-> 0, alts |-> <<>>]
PatEmpty == [kind |-> "empty", groups |-> 0, alts |-> << <<>> >>]
PatBad == [kind |-> "bad", groups |-> 0, alts |-> <<>>]
Pat(groups, alts) == [kind |-> "re", groups |-> groups, alts |-> alts]

\* bool(pattern): None and "" are falsy
Truthy(pat) == pat.kind \in {"bad", "re"}

\* re.search / re.match raise TypeError on None and re.error on a pattern
\* that does not compile
ReRaises(pat) == pat.kind \in {"none", "bad"}
ReError(pat) == IF pat.kind = "none" THEN "TypeError" ELSE "re.error"

NoMatch == [ok |-> FALSE, g |-> <<>>]

RECURSIVE DigitsEnd(_, _)
\* the first index >= i of s that holds no digit
DigitsEnd(s, i) ==
    IF i <= StrLen(s) /\ CharAt(s, i) \in Digits THEN DigitsEnd(s, i + 1) ELSE i

RECURSIVE MatchAt(_, _, _, _)
\* one alternative matched at index i of s; g holds the groups captured so far
MatchAt(s, i, atoms, g) ==
    IF atoms = <<>> THEN [ok |-> TRUE, g |-> g]
    ELSE LET a == atoms[1] IN
         IF a.t = "lit"
         THEN IF i <= StrLen(s) /\ CharAt(s, i) = a.c
              THEN MatchAt(s, i + 1, Tail(atoms), g)
              ELSE NoMatch
         ELSE LET j == DigitsEnd(s, i) IN
              IF j = i /\ a.t = "digits" THEN NoMatch
              ELSE MatchAt(s, j, Tail(atoms),
                           IF a.g = 0 THEN g ELSE [g EXCEPT ![a.g] = Sub(s, i, j - 1)])

RECURSIVE AltsAt(_, _, _, _)
\* the alternatives tried in order at index i
AltsAt(s, i, pat, k) ==
    IF k > Len(pat.alts) THEN NoMatch
    ELSE LET m == MatchAt(s, i, pat.alts[k], [x \in 1..pat.groups |-> NoneStr]) IN
         IF m.ok THEN m ELSE AltsAt(s, i, pat, k + 1)

\* re.match(pat, s): anchored at the start of s
ReMatch(pat, s) == AltsAt(s, 1, pat, 1)

RECURSIVE SearchFrom(_, _, _)
SearchFrom(pat, s, i) ==
    IF i > StrLen(s) + 1 THEN NoMatch
    ELSE LET m == AltsAt(s, i, pat, 1) IN
         IF m.ok THEN m ELSE SearchFrom(pat, s, i + 1)

\* re.search(pat, s): the leftmost match
ReSearch(pat, s) == SearchFrom(pat, s, 1)

\* m.group(k) of a match object
Group(m, k) == m.g[k]

\* --------------------------------------------------------------- layout tree
\* What extract_pages yields (pdfminer.layout).  A node is
\* [cls, fontname, size, text, kids]: an LTChar carries fontname, size and
\* text; an LTAnno carries text; the containers carry kids.  An LTChar whose
\* text is n copies of one character stands for n consecutive glyphs of that
\* character in one font and size: the aggregator treats the n glyphs alike.
\* Font names are sequences of characters.

LTChar(fontname, size, text) ==
    [cls |-> "LTChar", fontname |-> fontname, size |-> size, text |-> text, kids |-> <<>>]
LTAnno(text) ==
    [cls |-> "LTAnno", fontname |-> <<>>, size |-> 0, text |-> text, kids |-> <<>>]
LTBox(cls, kids) ==
    [cls |-> cls, fontname |-> <<>>, size |-> 0, text |-> <<>>, kids |-> kids]

\* isinstance(node, LTChar)
IsLTChar(node) == node.cls = "LTChar"
\* isinstance(node, LTContainer)
IsLTContainer(node) == node.cls \in {"LTTextLine", "LTTextBox", "LTFigure"}
\* isinstance(node, LTTextContainer)
IsLTTextContainer(node) == node.cls \in {"LTTextLine", "LTTextBox"}
\* hasattr(node, "get_text")
HasGetText(node) == node.cls \in {"LTChar", "LTAnno", "LTTextLine", "LTTextBox"}

RECURSIVE GetText(_)
RECURSIVE JoinText(_)
\* node.get_text(): a glyph's or annotation's own text, a text container's
\* joined from its children that carry text
GetText(node) == IF IsLTTextContainer(node) THEN JoinText(node.kids) ELSE node.text
JoinText(kids) ==
    IF kids = <<>> THEN <<>>
    ELSE IF HasGetText(kids[1]) THEN Cat(GetText(kids[1]), JoinText(Tail(kids)))
    ELSE JoinText(Tail(kids))

Lower(c) ==
    CASE c = "A" -> "a" [] c = "B" -> "b" [] c = "C" -> "c" [] c = "D" -> "d"
      [] c = "E" -> "e" [] c = "F" -> "f" [] c = "G" -> "g" [] c = "H" -> "h"
      [] c = "I" -> "i" [] c = "J" -> "j" [] c = "K" -> "k" [] c = "L" -> "l"
      [] c = "M" -> "m" [] c = "N" -> "n" [] c = "O" -> "o" [] c = "P" -> "p"
      [] c = "Q" -> "q" [] c = "R" -> "r" [] c = "S" -> "s" [] c = "T" -> "t"
      [] c = "U" -> "u" [] c = "V" -> "v" [] c = "W" -> "w" [] c = "X" -> "x"
      [] c = "Y" -> "y" [] c = "Z" -> "z" [] OTHER -> c

\* name.lower()
LowerName(name) == [i \in 1..Len(name) |-> Lower(name[i])]

\* sub in name
Contains(name, sub) ==
    \E i \in 1..(Len(name) - Len(sub) + 1) : SubSeq(name, i, i + Len(sub) - 1) = sub

WordBold == <<"B", "o", "l", "d">>
WordItalic == <<"i", "t", "a", "l", "i", "c">>

\* ---------------------------------------------------- font property walk
\* Font sizes are in hundredths of a point.  float('inf') and float('-inf')
\* are the two sentinels below, beyond every glyph size.
SizeInf == 1000000
SizeNegInf == -1000000
BoldFloor == 900

Min2(a, b) == IF a < b THEN a ELSE b
Max2(a, b) == IF a > b THEN a ELSE b

\* the semi-global variables as set before each element is walked
FreshProfile(names) ==
    [fontsize_min |-> SizeInf, fontsize_max |-> SizeNegInf,
     font_boldness |-> TRUE, font_italicness |-> TRUE,
     font_names |-> names, element_text |-> <<>>]

\* mutant: small print clears boldness like any other glyph
UpdateCharAnySize(node, acc) ==
    [fontsize_min |-> Min2(acc.fontsize_min, node.size),
     fontsize_max |-> Max2(acc.fontsize_max, node.size),
     font_names |->
        IF \E i \in 1..Len(acc.font_names) : acc.font_names[i] = node.fontname
        THEN acc.font_names
        ELSE Append(acc.font_names, node.fontname),
     font_boldness |->
        IF ~Contains(node.fontname, WordBold) /\ Strip(node.text) # <<>>
        THEN FALSE ELSE acc.font_boldness,
     font_italicness |->
        IF ~Contains(LowerName(node.fontname), WordItalic) /\ Strip(node.text) # <<>>
        THEN FALSE ELSE acc.font_italicness,
     element_text |-> Cat(acc.element_text, node.text)]

\* mutant: every glyph's font name is appended, seen before or not
UpdateCharEveryName(node, acc) ==
    [fontsize_min |-> Min2(acc.fontsize_min, node.size),
     fontsize_max |-> Max2(acc.fontsize_max, node.size),
     font_names |-> Append(acc.font_names, node.fontname),
     font_boldness |->
        IF ~Contains(node.fontname, WordBold) /\ Strip(node.text) # <<>>
           /\ node.size >= BoldFloor
        THEN FALSE ELSE acc.font_boldness,
     font_italicness |->
        IF ~Contains(LowerName(node.fontname), WordItalic) /\ Strip(node.text) # <<>>
        THEN FALSE ELSE acc.font_italicness,
     element_text |-> Cat(acc.element_text, node.text)]

\* the LTChar branch of check_and_update_font_properties
UpdateChar(node, acc) ==
    [fontsize_min |-> Min2(acc.fontsize_min, node.size),
     fontsize_max |-> Max2(acc.fontsize_max, node.size),
     font_names |->
        IF \E i \in 1..Len(acc.font_names) : acc.font_names[i] = node.fontname
        THEN acc.font_names
        ELSE Append(acc.font_names, node.fontname),
     font_boldness |->
        IF ~Contains(node.fontname, WordBold) /\ Strip(node.text) # <<>>
           /\ node.size >= BoldFloor
        THEN FALSE ELSE acc.font_boldness,
     font_italicness |->
        IF ~Contains(LowerName(node.fontname), WordItalic) /\ Strip(node.text) # <<>>
        THEN FALSE ELSE acc.font_italicness,
     element_text |-> Cat(acc.element_text, node.text)]

RECURSIVE check_and_update_font_properties(_, _)
RECURSIVE WalkKids(_, _)
\* mutant: the line-break marker is kept as a newline
WalkKeepingNewline(node, acc) ==
    IF IsLTChar(node) THEN UpdateChar(node, acc)
    ELSE IF HasGetText(node) /\ GetText(node) = Rep(NL, 1)
         THEN [acc EXCEPT !.element_text = Cat(@, Rep(NL, 1))]
    ELSE IF IsLTContainer(node) THEN WalkKids(node.kids, acc)
    ELSE acc

check_and_update_font_properties(node, acc) ==
    IF IsLTChar(node) THEN UpdateChar(node, acc)
    ELSE IF HasGetText(node) /\ GetText(node) = Rep(NL, 1)
         THEN [acc EXCEPT !.element_text = Cat(@, Rep(SP, 1))]
    ELSE IF IsLTContainer(node) THEN WalkKids(node.kids, acc)
    ELSE acc
\* for child in element: check_and_update_font_properties(child)
WalkKids(kids, acc) ==
    IF kids = <<>> THEN acc
    ELSE WalkKids(Tail(kids), check_and_update_font_properties(kids[1], acc))

\* ------------------------------------------------------------------ inputs
\* A layout is what extract_pages yields, flattened: an item of kind "page"
\* opens a page of the given width and height, the items of kind "element"
\* that follow are the elements of that page, in order.

PageItem(width, height) ==
    [kind |-> "page", width |-> width, height |-> height,
     x0 |-> 0, x1 |-> 0, y0 |-> 0, y1 |-> 0, node |-> LTBox("LTPage", <<>>)]
Element(x0, x1, y0, y1, node) ==
    [kind |-> "element", width |-> 0, height |-> 0,
     x0 |-> x0, x1 |-> x1, y0 |-> y0, y1 |-> y1, node |-> node]

FontRoman == <<"T", "i", "m", "e", "s">>
FontBold == <<"T", "-", "B", "o", "l", "d">>
FontItalic == <<"T", "-", "I", "t", "a", "l", "i", "c">>
FontBoldItalic == <<"T", "-", "B", "o", "l", "d", "I", "t", "a", "l", "i", "c">>

\* a text box of one line: n glyphs of the character c, then the line's "\n"
Line(font, size, c, n) ==
    LTBox("LTTextBox",
          <<LTBox("LTTextLine", <<LTChar(font, size, Rep(c, n)), LTAnno(Rep(NL, 1))>>)>>)

RECURSIVE Glyphs(_, _, _)
Glyphs(font, size, cs) ==
    IF cs = <<>> THEN <<>>
    ELSE <<LTChar(font, size, Rep(cs[1], 1))>> \o Glyphs(font, size, Tail(cs))

\* a text box of one line spelling the characters cs
Spelled(font, size, cs) ==
    LTBox("LTTextBox",
          <<LTBox("LTTextLine", Glyphs(font, size, cs) \o <<LTAnno(Rep(NL, 1))>>)>>)

\* Pages are 600 x 800 points: with the default margins an element is a page
\* header above y0 = 736 and a footer below y1 = 64.  Left-aligned text sits
\* outside the band of bins around the expected heading centre.
PageA == PageItem(600, 800)
PageB == PageItem(400, 800)

BodyBig == Element(20, 440, 400, 412, Line(FontRoman, 1000, "b", 5000))
BodyMed == Element(20, 440, 400, 412, Line(FontRoman, 1000, "m", 599))
\* with its trailing space, a text of 500 characters
Body500 == Element(20, 440, 400, 412, Line(FontRoman, 1000, "d", 499))
BodyLong == Element(20, 440, 400, 412, Line(FontRoman, 1000, "l", 1499))
Head1 == Element(20, 120, 400, 412, Line(FontBold, 1100, "A", 8))
Head2 == Element(20, 140, 400, 412, Line(FontItalic, 1100, "I", 10))
Head3 == Element(20, 160, 400, 412, Line(FontRoman, 1400, "G", 12))
ParMark == Element(20, 40, 400, 412, Spelled(FontRoman, 849, <<"(", "1", ")">>))
Foot1 == Element(20, 60, 30, 40, Spelled(FontRoman, 1000, <<"1", SP, "E", "N">>))
Foot2 == Element(500, 540, 30, 40, Spelled(FontRoman, 1000, <<"E", "N", SP, "2">>))
FootPlain == Element(20, 60, 30, 40, Spelled(FontRoman, 1000, <<"E", "N">>))
Foot3 == Element(20, 60, 30, 40, Spelled(FontRoman, 1000, <<"3", "E", "N">>))
FootFigure == Element(20, 60, 30, 40, LTBox("LTFigure", <<LTChar(FontRoman, 1000, Rep("f", 5))>>))
FootRule == Element(20, 440, 50, 51, LTBox("LTRect", <<>>))
Header == Element(20, 440, 760, 772, Line(FontBold, 1100, "R", 8))
SmallPrint == Element(20, 30, 400, 406, Line(FontRoman, 800, "s", 2))
Centered == Element(250, 350, 400, 412, Line(FontRoman, 1000, "c", 20))
WideCentered == Element(130, 470, 400, 412, Line(FontRoman, 1000, "w", 60))
BoldItalic == Element(20, 120, 400, 412, Line(FontBoldItalic, 1100, "x", 8))
BoldItalicCentered == Element(250, 350, 400, 412, Line(FontBoldItalic, 1100, "y", 8))
AnnoGap ==
    Element(20, 120, 400, 412,
            LTBox("LTTextBox",
                  <<LTBox("LTTextLine",
                          <<LTChar(FontBold, 1100, Rep("A", 4)), LTAnno(Rep(SP, 1)),
                            LTChar(FontBold, 1100, Rep("A", 4)), LTAnno(Rep(NL, 1))>>)>>))
\* a bold line that ends with a footnote reference in small roman type
HeadNote ==
    Element(20, 120, 400, 412,
            LTBox("LTTextBox",
                  <<LTBox("LTTextLine",
                          <<LTChar(FontBold, 1100, Rep("A", 8)),
                            LTChar(FontRoman, 800, Rep("1", 1)), LTAnno(Rep(NL, 1))>>)>>))
BoldItalicBig == Element(20, 120, 400, 412, Line(FontBoldItalic, 1400, "z", 8))
\* a line of blanks alone: the layout analysis leaves it out of every text box
Blank ==
    Element(20, 120, 400, 412,
            LTBox("LTTextLine", <<LTChar(FontRoman, 1400, Rep(SP, 7)), LTAnno(Rep(NL, 1))>>))
Len6 == Element(20, 120, 400, 412, Line(FontBold, 1100, "A", 5))
Len7 == Element(20, 120, 400, 412, Line(FontBold, 1100, "A", 6))
Len89 == Element(20, 120, 400, 412, Line(FontBold, 1100, "A", 88))
Len90 == Element(20, 120, 400, 412, Line(FontBold, 1100, "A", 89))
Size13 == Element(20, 120, 400, 412, Line(FontRoman, 1300, "G", 8))
BodyFigure == Element(20, 120, 400, 412, LTBox("LTFigure", <<LTChar(FontBold, 1100, Rep("F", 8))>>))

\* r"\(\d+\)": a paragraph number in parentheses
ParPattern == Pat(0, << <<Lit("("), Num(0), Lit(")")>> >>)
\* r"(\d+) EN|EN (\d+)": the page number left or right of the language code
FooterTwo == Pat(2, << <<Num(1), Lit(SP), Lit("E"), Lit("N")>>,
                       <<Lit("E"), Lit("N"), Lit(SP), Num(2)>> >>)
\* r"(\d*)EN": the page number, if the page has one, before the language code
FooterOpt == Pat(1, << <<NumOpt(1), Lit("E"), Lit("N")>> >>)
\* r"(\d+) EN|EN (\d+)|EN": as FooterTwo, and the language code alone on a
\* page that has no number
FooterTwoOrBare == Pat(2, << <<Num(1), Lit(SP), Lit("E"), Lit("N")>>,
                             <<Lit("E"), Lit("N"), Lit(SP), Num(2)>>,
                             <<Lit("E"), Lit("N")>> >>)
\* r"(\d+) EN"
FooterOne == Pat(1, << <<Num(1), Lit(SP), Lit("E"), Lit("N")>> >>)

\* the longest document, in items
MaxItems == 4

\* The calls checked: the arguments other than the document, the elements the
\* document is drawn from and its pages.  A margin of 0 stands for None (the
\* code tests "not top_margin").
Call(fp, pp, tm, bm, items) ==
    [footer_pattern |-> fp, paragraphpattern |-> pp, top_margin |-> tm,
     bottom_margin |-> bm, items |-> items]

Calls ==
    { Call(FooterTwo, ParPattern, 0, 0,
           {"PageA", "BodyBig", "BodyLong", "Head1", "Head2", "ParMark"}),
      Call(FooterTwo, ParPattern, 0, 0, {"PageA", "Foot1", "Foot2", "FootPlain", "BodyBig"}),
      Call(FooterTwo, ParPattern, 0, 0,
           {"PageA", "Foot1", "FootFigure", "Header", "SmallPrint", "BodyBig"}),
      Call(FooterOne, ParPattern, 750, 70,
           {"PageA", "PageB", "Foot1", "Centered", "WideCentered", "BodyMed"}),
      Call(FooterTwo, ParPattern, 0, 0,
           {"PageA", "Centered", "WideCentered", "BoldItalic", "BoldItalicCentered",
            "BoldItalicBig", "Head3"}),
      Call(FooterTwo, ParPattern, 0, 0,
           {"PageA", "Len6", "Len7", "Len89", "Len90", "Size13"}),
      Call(FooterTwo, ParPattern, 0, 0,
           {"PageA", "AnnoGap", "Blank", "BodyFigure", "HeadNote", "BodyMed"}),
      Call(FooterOpt, ParPattern, 0, 0, {"PageA", "Foot3", "FootPlain", "BodyMed"}),
      Call(FooterTwo, ParPattern, -10, -10, {"PageA", "Head1", "BodyMed"}),
      Call(FooterTwo, ParPattern, 0, 0, {"PageA", "Head1", "SmallPrint", "Header"}),
      Call(FooterTwo, ParPattern, 0, 0, {"PageA", "Body500", "Head1"}),
    Call(FooterTwoOrBare, ParPattern, 0, 0, {"PageA", "Foot1", "FootPlain"}),
    Call(PatNone, ParPattern, 0, 0, {"PageA", "Foot1", "BodyBig", "Head1", "ParMark"}),
      Call(PatEmpty, PatEmpty, 0, 0, {"PageA", "Foot1", "BodyBig", "Head1", "ParMark"}),
      Call(FooterTwo, PatNone, 0, 0, {"PageA", "Foot1", "Head1", "ParMark", "FootRule"}),
      Call(PatBad, PatBad, 0, 0, {"PageA", "Foot1", "Header", "Head1", "FootRule"}) }

\* the layout item of each name
Item(name) ==
    CASE name = "PageA" -> PageA
      [] name = "PageB" -> PageB
      [] name = "BodyBig" -> BodyBig
      [] name = "BodyLong" -> BodyLong
      [] name = "Body500" -> Body500
      [] name = "BodyMed" -> BodyMed
      [] name = "Head1" -> Head1
      [] name = "Head2" -> Head2
      [] name = "Head3" -> Head3
      [] name = "ParMark" -> ParMark
      [] name = "Foot1" -> Foot1
      [] name = "Foot2" -> Foot2
      [] name = "FootPlain" -> FootPlain
      [] name = "Foot3" -> Foot3
      [] name = "FootFigure" -> FootFigure
      [] name = "FootRule" -> FootRule
      [] name = "Header" -> Header
      [] name = "SmallPrint" -> SmallPrint
      [] name = "Centered" -> Centered
      [] name = "WideCentered" -> WideCentered
      [] name = "BoldItalic" -> BoldItalic
      [] name = "BoldItalicCentered" -> BoldItalicCentered
      [] name = "BoldItalicBig" -> BoldItalicBig
      [] name = "AnnoGap" -> AnnoGap
      [] name = "HeadNote" -> HeadNote
      [] name = "Blank" -> Blank
      [] name = "Len6" -> Len6
      [] name = "Len7" -> Len7
      [] name = "Len89" -> Len89
      [] name = "Len90" -> Len90
      [] name = "Size13" -> Size13
      [] name = "BodyFigure" -> BodyFigure

\* the documents of at most MaxItems items over the items of a call: a
\* document is named by the names of its items, and starts with a page
Documents(items) ==
    {<<>>} \cup
    { <<p>> \o d : p \in {i \in items : Item(i).kind = "page"},
                   d \in UNION { [1..n -> items] : n \in 0..(MaxItems - 1) } }

\* extract_pages(pdf_path): the layout of the document, item by item
extract_pages(path) == [i \in 1..Len(path) |-> Item(path[i])]

\* -------------------------------------------------------------- the state

VARIABLES
    \* the arguments of the call
    task_id, pdf_path, footer_pattern, paragraphpattern, top_margin, bottom_margin,
    \* where the call is: "stats", "segment", "returned" or "raised" (and what)
    pc, error,
    \* the second loop over the pages: the next item, and whether a page is open
    pos, on_page,
    \* the statistics pass
    center_positions_normalized, centers_near_mid_indices,
    \* the segmentation state
    chunks, current_heading, prev_consec_heading, pagenum, text_buffer, font_names,
    \* the page being segmented; the heights are in hundredths of a point
    page_width, page_header_height, page_footer_height,
    \* the variables set anew for each element, and element_level_text, which
    \* is set only for an element that has get_text
    par_marker, fontsize_min, fontsize_max, font_boldness, font_italicness,
    element_text, element_level_text,
    \* the module's search_results: for each task identifier its 'status'
    search_results,
    \* the local variables of another call of extract_chunks that is under way
    \* and not running at the moment, if there is one
    suspended,
    \* history: the branch each item took; for each chunk the position of the
    \* item that emitted it (Len(pdf_path) + 1 for the last buffer); current_heading
    \* as it was when the first text was added to the buffer, and the same for
    \* each chunk emitted
    taken, emitted_at, first_heading, emitted_first,
    \* templatepreproc.py, do_checks_and_fixes on one paragraph: the texts of
    \* para.runs, where the call is, the -f flag, and the checks it returns
    runs, tpc, extract_fieldcodes, checks,
    \* preprocess_field_codes: i, codeopening and innerrun_split
    idx, codeopening, innerrun_split,
    \* create_fieldcode_docx: its argument, used_keys, and the Key column of
    \* the rows added so far
    fieldcodes, used_keys, table_keys

inputs == <<task_id, pdf_path, footer_pattern, paragraphpattern, top_margin, bottom_margin>>
statsv == <<center_positions_normalized, centers_near_mid_indices>>
segv == <<chunks, current_heading, prev_consec_heading, pagenum, text_buffer>>
pagev == <<page_width, page_header_height, page_footer_height>>
elemv == <<par_marker, fontsize_min, fontsize_max, font_boldness, font_italicness,
           element_text>>
history == <<taken, emitted_at, first_heading, emitted_first>>
chunkhist == <<emitted_at, first_heading, emitted_first>>
chunking == <<inputs, pc, error, pos, on_page, statsv, segv, font_names, pagev, elemv,
              element_level_text, search_results, suspended, history>>
template == <<runs, tpc, extract_fieldcodes, checks, idx, codeopening, innerrun_split,
              fieldcodes, used_keys, table_keys>>
vars == <<chunking, template>>

\* templatepreproc.py is not running
TemplateIdle ==
    /\ runs = <<>>
    /\ tpc = "idle"
    /\ extract_fieldcodes = FALSE
    /\ checks = <<>>
    /\ idx = 0
    /\ codeopening = 0
    /\ innerrun_split = <<>>
    /\ fieldcodes = <<>>
    /\ used_keys = {}
    /\ table_keys = <<>>

\* a local variable that has not been assigned yet
Unbound == <<Run("unbound", 0)>>

\* the task identifiers the caller has entered into search_results
TaskIds == {"t1", "t2"}

\* no other call is under way
NoCall == [task_id |-> "none"]

\* mutant: the status is one value for the module, not one per task
ReportForAll(status) == [t \in DOMAIN search_results |-> status]

\* search_results[task_id]['status'] = status
Report(status) == [search_results EXCEPT ![task_id] = status]

\* ------------------------------------------------------ statistics pass
bucket_count == 901
TopBins == 8
\* linelength_limit = 0.6, as a fraction
LineLengthNum == 6
LineLengthDen == 10
\* the expected heading centre 0.55 and its radius 0.15, in hundredths
MidCentre == 55
MidRadius == 15

Abs(x) == IF x < 0 THEN -x ELSE x

\* The page and the position of each text container kept by the first loop:
\* (x1 - x0) < page_layout.width / 2, with the width of its own page.
RECURSIVE ShortLines(_, _, _)
ShortLines(doc, i, width) ==
    IF i > Len(doc) THEN <<>>
    ELSE IF doc[i].kind = "page" THEN ShortLines(doc, i + 1, doc[i].width)
    ELSE IF IsLTTextContainer(doc[i].node) /\ 2 * (doc[i].x1 - doc[i].x0) < width
         THEN <<doc[i].x0 + doc[i].x1>> \o ShortLines(doc, i + 1, width)
         ELSE ShortLines(doc, i + 1, width)

\* page_width when the first loop has ended: the width of the last page
RECURSIVE LastWidth(_, _)
LastWidth(doc, i) ==
    IF i = 0 THEN 0
    ELSE IF doc[i].kind = "page" THEN doc[i].width
    ELSE LastWidth(doc, i - 1)

\* [pos / page_width for pos in center_positions], each a fraction num / den
\* (centerpos is (x0 + x1) / 2)
Normalized(doc) ==
    LET cp == ShortLines(doc, 1, 0) IN
    [k \in 1..Len(cp) |-> [num |-> cp[k], den |-> 2 * LastWidth(doc, Len(doc))]]

\* the bin of np.histogram that the fraction p falls into (-1: outside [0, 1])
HistBin(p) ==
    IF p.num < 0 \/ p.num > p.den THEN -1
    ELSE IF p.num = p.den THEN bucket_count - 1
    ELSE (p.num * bucket_count) \div p.den

\* np.digitize(p, bin_edges) - 1
Digitize(p) ==
    IF p.num < 0 THEN -1
    ELSE IF p.num >= p.den THEN bucket_count
    ELSE (p.num * bucket_count) \div p.den

Histogram(cpn, b) == Cardinality({k \in 1..Len(cpn) : HistBin(cpn[k]) = b})

\* abs(center - 0.55) < 0.15 for the centre (2b + 1) / (2 * bucket_count) of bin b
NearMid(b) ==
    Abs(100 * (2 * b + 1) - MidCentre * 2 * bucket_count) < MidRadius * 2 * bucket_count

\* np.searchsorted(bin_edges, center) - 1 for the centre of bin b: the first
\* edge j / bucket_count that is >= the centre, less one
SearchSortedLessOne(b) == ((2 * b + 1) + 1) \div 2 - 1

\* the bin an element is tested against in alignedcenter
ElementBin(e, pagewd) == Digitize([num |-> e.x0 + e.x1, den |-> 2 * pagewd])

\* the bins some element of the document is tested against
RECURSIVE TestedBins(_, _, _)
TestedBins(doc, i, width) ==
    IF i > Len(doc) THEN {}
    ELSE IF doc[i].kind = "page" THEN TestedBins(doc, i + 1, doc[i].width)
    ELSE {ElementBin(doc[i], width)} \cup TestedBins(doc, i + 1, width)

\* np.argsort(histogram)[-8:].  The default sort is not stable, so which of
\* several bins with equal counts end up among the last eight is not
\* determined: every choice consistent with the counts is possible.  Bins
\* that hold no short line and that no element is tested against cannot
\* matter and are left out of the result.
TopChoices(doc, cpn) ==
    LET filled == {HistBin(cpn[k]) : k \in 1..Len(cpn)} \ {-1}
        cand == filled \cup (TestedBins(doc, 1, 0) \cap 0..(bucket_count - 1))
    IN { T \in SUBSET cand :
            /\ Cardinality(T) <= TopBins
            /\ \A b \in T, c \in cand \ T : Histogram(cpn, c) <= Histogram(cpn, b)
            /\ Cardinality(T) < TopBins => filled \subseteq T }

\* centers_near_mid_indices for the top bins T
NearMidIndices(T) == {SearchSortedLessOne(b) : b \in {c \in T : NearMid(c)}}

\* alignedcenter(element, pagewd)
alignedcenter(e, pagewd, indices) ==
    /\ ElementBin(e, pagewd) \in indices
    /\ LineLengthDen * (e.x1 - e.x0) < pagewd * LineLengthNum

\* ------------------------------------------------------- segmentation loop
SmallPrintFloor == 840
HeadingSizeFloor == 1300
ParFlushLimit == 1400
HeadingFlushLimit == 500
BodyFlushLimit == 5000
HeadingMinLen == 6
HeadingMaxLen == 90
\* the default margins: 92 % and 8 % of the page height
HeaderPercent == 92
FooterPercent == 8

Chunk(text, heading, page) ==
    [text |-> text, heading |-> heading, page |-> page, embeddings |-> <<>>]

\* item i of the layout
Laid(i) == Item(pdf_path[i])

\* the element the loop is at
Cur == Laid(pos)
AtElement == pc = "segment" /\ on_page /\ pos <= Len(pdf_path) /\ Laid(pos).kind = "element"

\* element.y0 > page_header_height
InHeader(e) == 100 * e.y0 > page_header_height
\* element.y1 < page_footer_height
InFooter(e) == 100 * e.y1 < page_footer_height

\* the walk of one element, from the fresh semi-global variables
Walked(e) == check_and_update_font_properties(e.node, FreshProfile(font_names))

\* element_text and fontsize_max >= 8.4
NotSmallPrint(w) == w.element_text # <<>> /\ w.fontsize_max >= SmallPrintFloor

\* mutant: the trailing space is never added
NormalisedNoSpace(t) == t

\* the trailing white space standardised
Normalised(t) == IF ~EndsWithWs(t) THEN Cat(t, Rep(SP, 1)) ELSE t

\* element_level_text after lines 155-156
LevelText(e) == IF HasGetText(e.node) THEN GetText(e.node) ELSE element_level_text

\* par_marker after lines 146-171, for an element that is not a footer
ParMarkerOf(e) ==
    IF HasGetText(e.node) /\ ReMatch(paragraphpattern, Strip(GetText(e.node))).ok
    THEN GetText(e.node) ELSE <<>>

\* the font and position tests of the heading condition
FontLooksLikeHeading(e, w) ==
    \/ w.fontsize_min > HeadingSizeFloor
    \/ (w.font_boldness = TRUE /\ w.font_italicness = FALSE)
    \/ (w.font_italicness = TRUE /\ w.font_boldness = FALSE)
    \/ alignedcenter(e, page_width, centers_near_mid_indices)

\* the conjuncts evaluated before element_level_text is read
ReadsLevelText(e, w, t) == Strip(t) # <<>> /\ FontLooksLikeHeading(e, w)

\* mutant: a text of exactly 6 characters is long enough
LooksLikeHeadingFromSix(e, w, t, level_text) ==
    /\ Strip(t) # <<>> /\ FontLooksLikeHeading(e, w)
    /\ NormWs(level_text) = NormWs(t)
    /\ StrLen(t) >= HeadingMinLen
    /\ StrLen(t) < HeadingMaxLen

\* the whole condition; t is the element's standardised text
LooksLikeHeading(e, w, t, level_text) ==
    /\ ReadsLevelText(e, w, t)
    /\ NormWs(level_text) = NormWs(t)
    /\ StrLen(t) > HeadingMinLen
    /\ StrLen(t) < HeadingMaxLen

\* mutant: the limit is still the 2000 it was shortened from
ParFlushAtOldLimit(buffer) == StrLen(buffer) > 2000
ParFlush(buffer) == StrLen(buffer) > ParFlushLimit
\* mutant: a heading flushes a buffer of 500 characters too
HeadingFlushFromLimit(buffer) == StrLen(buffer) >= HeadingFlushLimit
\* mutant: a heading flushes at the limit of a paragraph marker
HeadingFlushAtParLimit(buffer) == StrLen(buffer) > ParFlushLimit
HeadingFlush(buffer) == StrLen(buffer) > HeadingFlushLimit
\* mutant: the ceiling is compared with the wrong limit
BodyFlushLate(buffer) == StrLen(buffer) > 10 * BodyFlushLimit
BodyFlush(buffer) == StrLen(buffer) > BodyFlushLimit

\* the element gets as far as the walk (line 173) without an exception
ReachesWalk(e) ==
    /\ ~InHeader(e)
    /\ HasGetText(e.node) => (~InFooter(e) /\ ~ReRaises(paragraphpattern))

\* the element gets as far as the branch on par_marker (line 188)
ReachesBranch(e) == ReachesWalk(e) /\ NotSmallPrint(Walked(e))

SetElemVars(w, t, marker) ==
    /\ par_marker' = marker
    /\ fontsize_min' = w.fontsize_min
    /\ fontsize_max' = w.fontsize_max
    /\ font_boldness' = w.font_boldness
    /\ font_italicness' = w.font_italicness
    /\ element_text' = t

\* mutant: the chunk is labelled with the heading the element is about to set
FlushedChunkNewHeading(t) == Chunk(text_buffer, Cat(prev_consec_heading, t), pagenum)

\* the chunk appended when the element with text t finds the buffer long enough
FlushedChunk(t) == Chunk(text_buffer, current_heading, pagenum)

\* mutant: the separator the source's todo considers, " -- ", is put between
HeadingLabelSeparated(prev, t) == Cat(Cat(prev, <<Run(SP, 1), Run("-", 2), Run(SP, 1)>>), t)

\* current_heading = prev_consec_heading + element_text
HeadingLabel(prev, t) == Cat(prev, t)

\* The buffer flushed or not, then text_buffer += element_text; heading is
\* current_heading as the text is added.
AddText(flush, chunk, t, heading) ==
    /\ IF flush
       THEN /\ chunks' = Append(chunks, chunk)
            /\ emitted_at' = Append(emitted_at, pos)
            /\ emitted_first' = Append(emitted_first, first_heading)
            /\ text_buffer' = Cat(<<>>, t)
       ELSE /\ text_buffer' = Cat(text_buffer, t)
            /\ UNCHANGED <<chunks, emitted_at, emitted_first>>
    /\ first_heading' = IF flush \/ text_buffer = <<>> THEN heading ELSE first_heading

Step(branch) ==
    /\ pos' = pos + 1
    /\ taken' = Append(taken, branch)

Init ==
    /\ \E c \in Calls :
         /\ pdf_path \in Documents(c.items)
         /\ footer_pattern = c.footer_pattern
         /\ paragraphpattern = c.paragraphpattern
         /\ top_margin = c.top_margin
         /\ bottom_margin = c.bottom_margin
    /\ pc = "stats"
    /\ error = ""
    /\ pos = 1
    /\ on_page = FALSE
    /\ center_positions_normalized = <<>>
    /\ centers_near_mid_indices = {}
    /\ chunks = <<>>
    /\ current_heading = <<>>
    /\ prev_consec_heading = <<>>
    /\ pagenum = NoneStr
    /\ text_buffer = <<>>
    /\ font_names = <<>>
    /\ page_width = 0
    /\ page_header_height = 0
    /\ page_footer_height = 0
    /\ par_marker = <<>>
    /\ fontsize_min = SizeInf
    /\ fontsize_max = SizeNegInf
    /\ font_boldness = TRUE
    /\ font_italicness = TRUE
    /\ element_text = <<>>
    /\ element_level_text = Unbound
    /\ task_id = "t1"
    /\ search_results = [t \in TaskIds |-> "none"]
    /\ suspended = NoCall
    /\ taken = <<>>
    /\ emitted_at = <<>>
    /\ first_heading = <<>>
    /\ emitted_first = <<>>
    /\ TemplateIdle

\* lines 21-73: the first loop over the pages, the histogram, the heading
\* bins, and the segmentation state set to its initial values
CollectStatistics ==
    /\ pc = "stats"
    /\ LET cpn == Normalized(extract_pages(pdf_path)) IN
         /\ center_positions_normalized' = cpn
         /\ \E T \in TopChoices(extract_pages(pdf_path), cpn) :
               centers_near_mid_indices' = NearMidIndices(T)
    /\ chunks' = <<>>
    /\ current_heading' = <<>>
    /\ prev_consec_heading' = <<>>
    /\ pagenum' = NoneStr
    /\ text_buffer' = <<>>
    /\ font_names' = <<>>
    /\ search_results' = Report("layout")
    /\ pc' = "segment"
    /\ UNCHANGED <<suspended, inputs, error, pos, on_page, pagev, elemv, element_level_text,
                   history>>
    /\ UNCHANGED template

\* lines 135-139: the next page of the second loop
BeginPage ==
    /\ pc = "segment" /\ ~on_page /\ pos <= Len(pdf_path) /\ Laid(pos).kind = "page"
    /\ page_width' = Cur.width
    /\ page_header_height' =
         IF top_margin = 0 THEN Cur.height * HeaderPercent ELSE 100 * top_margin
    /\ page_footer_height' =
         IF bottom_margin = 0 THEN Cur.height * FooterPercent ELSE 100 * bottom_margin
    /\ on_page' = TRUE
    /\ Step("page")
    /\ UNCHANGED <<inputs, pc, error, statsv, segv, font_names, elemv,
                   element_level_text, search_results, suspended, chunkhist>>
    /\ UNCHANGED template

\* lines 143-144: an element above the header line
SkipHeader ==
    /\ AtElement /\ InHeader(Cur)
    /\ Step("header")
    /\ UNCHANGED <<inputs, pc, error, on_page, statsv, segv, font_names, pagev, elemv,
                   element_level_text, search_results, suspended, chunkhist>>
    /\ UNCHANGED template

\* mutant: the second group is taken whenever the pattern has two
FooterPageSecondFirst(text) ==
    IF ~Truthy(footer_pattern) THEN pagenum
    ELSE LET pgnum == ReSearch(footer_pattern, text) IN
         IF ~pgnum.ok THEN pagenum
         ELSE IF Len(pgnum.g) > 1 THEN Group(pgnum, 2)
         ELSE IF Len(pgnum.g) >= 1 /\ Group(pgnum, 1) \notin {NoneStr, <<>>}
              THEN Group(pgnum, 1)
         ELSE pagenum

\* pagenum after lines 160-166
FooterPage(text) ==
    IF ~Truthy(footer_pattern) THEN pagenum
    ELSE LET pgnum == ReSearch(footer_pattern, text) IN
         IF ~pgnum.ok THEN pagenum
         ELSE IF Len(pgnum.g) >= 1 /\ Group(pgnum, 1) \notin {NoneStr, <<>>}
              THEN Group(pgnum, 1)
         ELSE IF Len(pgnum.g) > 1 THEN Group(pgnum, 2)
         ELSE pagenum

\* lines 146-167: an element with get_text in the bottom margin
Footer ==
    /\ AtElement /\ ~InHeader(Cur) /\ HasGetText(Cur.node) /\ InFooter(Cur)
    /\ ~(Truthy(footer_pattern) /\ ReRaises(footer_pattern))
    /\ element_level_text' = GetText(Cur.node)
    /\ pagenum' = FooterPage(GetText(Cur.node))
    /\ SetElemVars(FreshProfile(font_names), <<>>, <<>>)
    /\ Step("footer")
    /\ UNCHANGED <<inputs, pc, error, on_page, statsv, chunks, current_heading,
                   prev_consec_heading, text_buffer, font_names, pagev, search_results, suspended,
                   chunkhist>>
    /\ UNCHANGED template

\* line 161: re.search raises on a pattern that does not compile
FooterRaises ==
    /\ AtElement /\ ~InHeader(Cur) /\ HasGetText(Cur.node) /\ InFooter(Cur)
    /\ Truthy(footer_pattern) /\ ReRaises(footer_pattern)
    /\ element_level_text' = GetText(Cur.node)
    /\ SetElemVars(FreshProfile(font_names), <<>>, <<>>)
    /\ pc' = "raised"
    /\ error' = ReError(footer_pattern)
    /\ Step("raise")
    /\ UNCHANGED <<inputs, on_page, statsv, segv, font_names, pagev, search_results, suspended,
                   chunkhist>>
    /\ UNCHANGED template

\* line 169: re.match raises on None and on a pattern that does not compile
ParagraphPatternRaises ==
    /\ AtElement /\ ~InHeader(Cur) /\ HasGetText(Cur.node) /\ ~InFooter(Cur)
    /\ ReRaises(paragraphpattern)
    /\ element_level_text' = GetText(Cur.node)
    /\ SetElemVars(FreshProfile(font_names), <<>>, <<>>)
    /\ pc' = "raised"
    /\ error' = ReError(paragraphpattern)
    /\ Step("raise")
    /\ UNCHANGED <<inputs, on_page, statsv, segv, font_names, pagev, search_results, suspended,
                   chunkhist>>
    /\ UNCHANGED template

\* mutant: small print ends a run of headings as body text does
SkipSmallEndsHeadings ==
    /\ AtElement /\ ReachesWalk(Cur)
    /\ LET w == Walked(Cur) IN
         /\ ~NotSmallPrint(w)
         /\ SetElemVars(w, w.element_text, ParMarkerOf(Cur))
         /\ font_names' = w.font_names
    /\ prev_consec_heading' = <<>>
    /\ element_level_text' = LevelText(Cur)
    /\ Step("small")
    /\ UNCHANGED <<inputs, pc, error, on_page, statsv, chunks, current_heading, pagenum,
                   text_buffer, pagev, search_results, suspended, chunkhist>>
    /\ UNCHANGED template

\* lines 146-176: an element that is walked and found empty or small print
SkipSmall ==
    /\ AtElement /\ ReachesWalk(Cur)
    /\ LET w == Walked(Cur) IN
         /\ ~NotSmallPrint(w)
         /\ SetElemVars(w, w.element_text, ParMarkerOf(Cur))
         /\ font_names' = w.font_names
    /\ element_level_text' = LevelText(Cur)
    /\ Step("small")
    /\ UNCHANGED <<inputs, pc, error, on_page, statsv, segv, pagev, search_results, suspended,
                   chunkhist>>
    /\ UNCHANGED template

\* lines 146-194: a paragraph marker
ParagraphMarker ==
    /\ AtElement /\ ReachesBranch(Cur) /\ ParMarkerOf(Cur) # <<>>
    /\ LET w == Walked(Cur)
           t == Normalised(w.element_text)
       IN /\ SetElemVars(w, t, ParMarkerOf(Cur))
          /\ font_names' = w.font_names
          /\ AddText(ParFlush(text_buffer), FlushedChunk(t), t, current_heading)
    /\ element_level_text' = LevelText(Cur)
    /\ Step("marker")
    /\ UNCHANGED <<inputs, pc, error, on_page, statsv, current_heading,
                   prev_consec_heading, pagenum, pagev, search_results, suspended>>
    /\ UNCHANGED template

\* line 208: element_level_text is read before any element had get_text
HeadingCheckRaises ==
    /\ AtElement /\ ReachesBranch(Cur) /\ ParMarkerOf(Cur) = <<>>
    /\ LET w == Walked(Cur)
           t == Normalised(w.element_text)
       IN /\ ReadsLevelText(Cur, w, t)
          /\ LevelText(Cur) = Unbound
          /\ SetElemVars(w, t, <<>>)
          /\ font_names' = w.font_names
    /\ pc' = "raised"
    /\ error' = "UnboundLocalError"
    /\ Step("raise")
    /\ UNCHANGED <<inputs, on_page, statsv, segv, pagev, element_level_text,
                   search_results, suspended, chunkhist>>
    /\ UNCHANGED template

\* lines 146-220 and 231: an element that looks like a heading
Heading ==
    /\ AtElement /\ ReachesBranch(Cur) /\ ParMarkerOf(Cur) = <<>>
    /\ LET w == Walked(Cur)
           t == Normalised(w.element_text)
       IN /\ ~(ReadsLevelText(Cur, w, t) /\ LevelText(Cur) = Unbound)
          /\ LooksLikeHeading(Cur, w, t, LevelText(Cur))
          /\ SetElemVars(w, t, <<>>)
          /\ font_names' = w.font_names
          /\ AddText(HeadingFlush(text_buffer), FlushedChunk(t), t,
                     HeadingLabel(prev_consec_heading, t))
          /\ current_heading' = HeadingLabel(prev_consec_heading, t)
          /\ prev_consec_heading' = t
    /\ element_level_text' = LevelText(Cur)
    /\ Step("heading")
    /\ UNCHANGED <<inputs, pc, error, on_page, statsv, pagenum, pagev, search_results, suspended>>
    /\ UNCHANGED template

\* lines 146-211 and 222-231: an element that does not look like a heading
Body ==
    /\ AtElement /\ ReachesBranch(Cur) /\ ParMarkerOf(Cur) = <<>>
    /\ LET w == Walked(Cur)
           t == Normalised(w.element_text)
       IN /\ ~(ReadsLevelText(Cur, w, t) /\ LevelText(Cur) = Unbound)
          /\ ~LooksLikeHeading(Cur, w, t, LevelText(Cur))
          /\ SetElemVars(w, t, <<>>)
          /\ font_names' = w.font_names
          /\ AddText(BodyFlush(text_buffer), FlushedChunk(t), t, current_heading)
    /\ prev_consec_heading' = <<>>
    /\ element_level_text' = LevelText(Cur)
    /\ Step("body")
    /\ UNCHANGED <<inputs, pc, error, on_page, statsv, current_heading, pagenum, pagev,
                   search_results, suspended>>
    /\ UNCHANGED template

\* line 235: the page's elements are done
EndPage ==
    /\ pc = "segment" /\ on_page
    /\ IF pos > Len(pdf_path) THEN TRUE ELSE Laid(pos).kind = "page"
    /\ on_page' = FALSE
    /\ search_results' = Report("chunking")
    /\ UNCHANGED <<suspended, inputs, pc, error, pos, statsv, segv, font_names, pagev, elemv,
                   element_level_text, history>>
    /\ UNCHANGED template

\* mutant: the last buffer is added only "if it exists", as the comment has it
ReturnIfBuffer ==
    /\ pc = "segment" /\ ~on_page /\ pos > Len(pdf_path)
    /\ IF text_buffer # <<>>
       THEN /\ chunks' = Append(chunks, Chunk(text_buffer, current_heading, pagenum))
            /\ emitted_at' = Append(emitted_at, pos)
            /\ emitted_first' = Append(emitted_first, first_heading)
       ELSE UNCHANGED <<chunks, emitted_at, emitted_first>>
    /\ text_buffer' = <<>>
    /\ pc' = "returned"
    /\ UNCHANGED <<inputs, error, pos, on_page, statsv, current_heading,
                   prev_consec_heading, pagenum, font_names, pagev, elemv,
                   element_level_text, search_results, suspended, taken, first_heading>>
    /\ UNCHANGED template

\* lines 239-243: the last buffer, and the return
Return ==
    /\ pc = "segment" /\ ~on_page /\ pos > Len(pdf_path)
    /\ chunks' = Append(chunks, Chunk(text_buffer, current_heading, pagenum))
    /\ emitted_at' = Append(emitted_at, pos)
    /\ emitted_first' = Append(emitted_first, first_heading)
    /\ text_buffer' = <<>>
    /\ pc' = "returned"
    /\ UNCHANGED <<inputs, error, pos, on_page, statsv, current_heading,
                   prev_consec_heading, pagenum, font_names, pagev, elemv,
                   element_level_text, search_results, suspended, taken, first_heading>>
    /\ UNCHANGED template

Next ==
    \/ CollectStatistics
    \/ BeginPage
    \/ SkipHeader
    \/ Footer
    \/ FooterRaises
    \/ ParagraphPatternRaises
    \/ SkipSmall
    \/ ParagraphMarker
    \/ HeadingCheckRaises
    \/ Heading
    \/ Body
    \/ EndPage
    \/ Return

Spec == Init /\ [][Next]_vars

\* ------------------------------------------------------ two calls at once
\* Two calls of extract_chunks under way in one process, as when the caller
\* runs each task in a thread of its own.  The variables above are the local
\* variables of the call that is running; those of the other call are kept
\* in suspended.  search_results belongs to the module and is the same for
\* both.  The running call may be interrupted between any two elements.

\* the local variables of the running call
Frame ==
    [task_id |-> task_id, pdf_path |-> pdf_path, footer_pattern |-> footer_pattern,
     paragraphpattern |-> paragraphpattern, top_margin |-> top_margin,
     bottom_margin |-> bottom_margin, pc |-> pc, error |-> error, pos |-> pos,
     on_page |-> on_page, center_positions_normalized |-> center_positions_normalized,
     centers_near_mid_indices |-> centers_near_mid_indices, chunks |-> chunks,
     current_heading |-> current_heading, prev_consec_heading |-> prev_consec_heading,
     pagenum |-> pagenum, text_buffer |-> text_buffer, font_names |-> font_names,
     page_width |-> page_width, page_header_height |-> page_header_height,
     page_footer_height |-> page_footer_height, par_marker |-> par_marker,
     fontsize_min |-> fontsize_min, fontsize_max |-> fontsize_max,
     font_boldness |-> font_boldness, font_italicness |-> font_italicness,
     element_text |-> element_text, element_level_text |-> element_level_text,
     taken |-> taken, emitted_at |-> emitted_at, first_heading |-> first_heading,
     emitted_first |-> emitted_first]

\* the local variables of a call that is about to start
StartFrame(id, c, path) ==
    [task_id |-> id, pdf_path |-> path, footer_pattern |-> c.footer_pattern,
     paragraphpattern |-> c.paragraphpattern, top_margin |-> c.top_margin,
     bottom_margin |-> c.bottom_margin, pc |-> "stats", error |-> "", pos |-> 1,
     on_page |-> FALSE, center_positions_normalized |-> <<>>,
     centers_near_mid_indices |-> {}, chunks |-> <<>>, current_heading |-> <<>>,
     prev_consec_heading |-> <<>>, pagenum |-> NoneStr, text_buffer |-> <<>>,
     font_names |-> <<>>, page_width |-> 0, page_header_height |-> 0,
     page_footer_height |-> 0, par_marker |-> <<>>, fontsize_min |-> SizeInf,
     fontsize_max |-> SizeNegInf, font_boldness |-> TRUE, font_italicness |-> TRUE,
     element_text |-> <<>>, element_level_text |-> Unbound, taken |-> <<>>,
     emitted_at |-> <<>>, first_heading |-> <<>>, emitted_first |-> <<>>]

\* the running call starts from the frame f
Load(f) ==
    /\ task_id = f.task_id
    /\ pdf_path = f.pdf_path
    /\ footer_pattern = f.footer_pattern
    /\ paragraphpattern = f.paragraphpattern
    /\ top_margin = f.top_margin
    /\ bottom_margin = f.bottom_margin
    /\ pc = f.pc
    /\ error = f.error
    /\ pos = f.pos
    /\ on_page = f.on_page
    /\ center_positions_normalized = f.center_positions_normalized
    /\ centers_near_mid_indices = f.centers_near_mid_indices
    /\ chunks = f.chunks
    /\ current_heading = f.current_heading
    /\ prev_consec_heading = f.prev_consec_heading
    /\ pagenum = f.pagenum
    /\ text_buffer = f.text_buffer
    /\ font_names = f.font_names
    /\ page_width = f.page_width
    /\ page_header_height = f.page_header_height
    /\ page_footer_height = f.page_footer_height
    /\ par_marker = f.par_marker
    /\ fontsize_min = f.fontsize_min
    /\ fontsize_max = f.fontsize_max
    /\ font_boldness = f.font_boldness
    /\ font_italicness = f.font_italicness
    /\ element_text = f.element_text
    /\ element_level_text = f.element_level_text
    /\ taken = f.taken
    /\ emitted_at = f.emitted_at
    /\ first_heading = f.first_heading
    /\ emitted_first = f.emitted_first

\* the call whose frame is f goes on
Resume(f) ==
    /\ task_id' = f.task_id
    /\ pdf_path' = f.pdf_path
    /\ footer_pattern' = f.footer_pattern
    /\ paragraphpattern' = f.paragraphpattern
    /\ top_margin' = f.top_margin
    /\ bottom_margin' = f.bottom_margin
    /\ pc' = f.pc
    /\ error' = f.error
    /\ pos' = f.pos
    /\ on_page' = f.on_page
    /\ center_positions_normalized' = f.center_positions_normalized
    /\ centers_near_mid_indices' = f.centers_near_mid_indices
    /\ chunks' = f.chunks
    /\ current_heading' = f.current_heading
    /\ prev_consec_heading' = f.prev_consec_heading
    /\ pagenum' = f.pagenum
    /\ text_buffer' = f.text_buffer
    /\ font_names' = f.font_names
    /\ page_width' = f.page_width
    /\ page_header_height' = f.page_header_height
    /\ page_footer_height' = f.page_footer_height
    /\ par_marker' = f.par_marker
    /\ fontsize_min' = f.fontsize_min
    /\ fontsize_max' = f.fontsize_max
    /\ font_boldness' = f.font_boldness
    /\ font_italicness' = f.font_italicness
    /\ element_text' = f.element_text
    /\ element_level_text' = f.element_level_text
    /\ taken' = f.taken
    /\ emitted_at' = f.emitted_at
    /\ first_heading' = f.first_heading
    /\ emitted_first' = f.emitted_first

\* the running call is interrupted and the other call goes on
Switch ==
    /\ suspended # NoCall
    /\ suspended' = Frame
    /\ Resume(suspended)
    /\ UNCHANGED search_results
    /\ UNCHANGED template

\* The documents of the two tasks, each with its patterns and margins: the
\* first task's take every branch of the element loop, the second's differ
\* from them in page width, margins and patterns.
FirstTasks ==
    { [call |-> Call(FooterTwo, ParPattern, 0, 0, {}),
       path |-> <<"PageA", "Header", "Foot1", "SmallPrint", "ParMark", "Head1", "BodyMed">>],
      [call |-> Call(PatBad, ParPattern, 0, 0, {}), path |-> <<"PageA", "Foot1">>],
      [call |-> Call(FooterTwo, ParPattern, 0, 0, {}), path |-> <<"PageA", "BodyFigure">>] }
SecondTasks ==
    { [call |-> Call(FooterOne, ParPattern, 750, 70, {}),
       path |-> <<"PageB", "Centered", "BodyMed", "Head2">>],
      [call |-> Call(FooterTwo, PatNone, 0, 0, {}), path |-> <<"PageA", "Head1">>] }

InitTwo ==
    /\ \E a \in FirstTasks, b \in SecondTasks :
         /\ Load(StartFrame("t1", a.call, a.path))
         /\ suspended = StartFrame("t2", b.call, b.path)
    /\ search_results = [t \in TaskIds |-> "none"]
    /\ TemplateIdle

NextTwo ==
    \/ Next
    \/ Switch

SpecTwo == InitTwo /\ [][NextTwo]_vars

\* -------------------------------------------------------- templatepreproc.py
\* A text is a sequence of characters.  do_checks_and_fixes handles each
\* paragraph of the document by itself; the model follows one paragraph,
\* given as the texts of its runs.

OpenMark == <<"<", "<">>
CloseMark == <<">", ">">>

\* text[k - 1 : k - 1 + len(sub)] == sub
HasAt(text, sub, k) ==
    k + Len(sub) - 1 <= Len(text) /\ SubSeq(text, k, k + Len(sub) - 1) = sub

\* text.find(sub) + 1
Find(text, sub) ==
    IF \E k \in 1..Len(text) : HasAt(text, sub, k)
    THEN CHOOSE k \in 1..Len(text) :
            HasAt(text, sub, k) /\ \A j \in 1..(k - 1) : ~HasAt(text, sub, j)
    ELSE 0

\* text.split(sep, 1)
Split1(text, sep) ==
    LET k == Find(text, sep) IN
    IF k = 0 THEN <<text>>
    ELSE <<SubSeq(text, 1, k - 1), SubSeq(text, k + Len(sep), Len(text))>>

RECURSIVE JoinRuns(_)
\* para.text: the texts of the runs, joined
JoinRuns(rs) == IF rs = <<>> THEN <<>> ELSE Head(rs) \o JoinRuns(Tail(rs))

RECURSIVE Chevrons(_, _)
\* re.finditer(r'<<|>>', text) from index k on: the matches, left to right,
\* none overlapping another
Chevrons(text, k) ==
    IF k + 1 > Len(text) THEN <<>>
    ELSE IF HasAt(text, OpenMark, k) THEN <<"<<">> \o Chevrons(text, k + 2)
    ELSE IF HasAt(text, CloseMark, k) THEN <<">>">> \o Chevrons(text, k + 2)
    ELSE Chevrons(text, k + 1)

\* What check_fieldcode_delim returns: False, or a message.  A message is
\* kept as the sequence of its parts; the text and the position quoted in
\* it are left out.
PyFalse == [isstr |-> FALSE, parts |-> <<>>]
Message(m) == [isstr |-> TRUE, parts |-> <<m>>]
\* bool(v)
Bool(v) == v.isstr /\ v.parts # <<>>
\* any(vs)
AnyTrue(vs) == \E k \in 1..Len(vs) : Bool(vs[k])

\* mutant: an opening mark left without its closing mark is not reported
CheckWithoutOrphanTest(text) ==
    LET chevrons == Chevrons(text, 1) IN
    IF chevrons = <<>> THEN PyFalse
    ELSE IF chevrons[1] # "<<"
         THEN Message("First chevron in para or run: Unexpected closing chevron (>>)")
    ELSE IF \E p \in 1..(Len(chevrons) \div 2) :
               chevrons[2 * p - 1] # "<<" \/ chevrons[2 * p] # ">>"
         THEN Message("Expected << >> pair.")
    ELSE PyFalse

check_fieldcode_delim(text) ==
    LET chevrons == Chevrons(text, 1) IN
    IF chevrons = <<>> THEN PyFalse
    ELSE IF chevrons[1] # "<<"
         THEN Message("First chevron in para or run: Unexpected closing chevron (>>)")
    ELSE IF \E p \in 1..(Len(chevrons) \div 2) :
               chevrons[2 * p - 1] # "<<" \/ chevrons[2 * p] # ">>"
         THEN Message("Expected << >> pair.")
    ELSE IF Len(chevrons) % 2 # 0 THEN Message("Orphaned opening chevron <<")
    ELSE PyFalse

RECURSIVE RealignFrom(_, _)
\* lines 64-73 from the run at index r - 1 on; prevrun is the run before it
RealignFrom(rs, r) ==
    IF r > Len(rs) THEN rs
    ELSE IF Contains(rs[r], OpenMark) /\ SubSeq(rs[r], 1, 2) # OpenMark
         THEN LET thistextsplit == Split1(rs[r], OpenMark) IN
              RealignFrom([rs EXCEPT ![r - 1] = @ \o thistextsplit[1],
                                     ![r] = OpenMark \o thistextsplit[2]], r + 1)
    ELSE RealignFrom(rs, r + 1)

\* the runs of one paragraph after realign_field_codes
realign_field_codes(rs) == IF rs = <<>> THEN rs ELSE RealignFrom(rs, 2)

\* string.ascii_letters + string.digits + "_", over the letters in use
AsciiLetters == {"a", "b", "c", "e", "x", "y"}
KeyChars == AsciiLetters \cup Digits \cup {"_"}

\* unicodedata.normalize('NFKD', ch).encode('ascii', 'ignore'): "e_acute"
\* stands for U+00E9, which decomposes into e and a combining accent;
\* "sharp_s" for U+00DF, which has no decomposition and is dropped
AsciiOf(ch) ==
    CASE ch = "e_acute" -> <<"e">>
      [] ch = "sharp_s" -> <<>>
      [] OTHER -> <<ch>>

RECURSIVE normalize_key(_)
normalize_key(key) ==
    IF key = <<>> THEN <<>>
    ELSE LET a == AsciiOf(Head(key)) IN
         (IF a = <<>> THEN <<>> ELSE IF a[1] \in KeyChars THEN a ELSE <<"_">>)
            \o normalize_key(Tail(key))

RECURSIVE DecStr(_)
\* str(n) for n >= 0
DecStr(n) ==
    LET d == <<"0", "1", "2", "3", "4", "5", "6", "7", "8", "9">> IN
    IF n < 10 THEN <<d[n + 1]>> ELSE DecStr(n \div 10) \o <<d[(n % 10) + 1]>>

\* f"{base_key}_{counter}"
Numbered(base_key, counter) == base_key \o <<"_">> \o DecStr(counter)

make_unique_key(base_key, used) ==
    IF base_key \notin used THEN base_key
    ELSE LET counter == CHOOSE c \in 1..(Cardinality(used) + 1) :
                           /\ Numbered(base_key, c) \notin used
                           /\ \A b \in 1..(c - 1) : Numbered(base_key, b) \in used
         IN Numbered(base_key, counter)

\* line 167: fieldcode.isidentifier() and all characters in KeyChars
IsAsciiIdentifier(fieldcode) ==
    /\ fieldcode # <<>>
    /\ fieldcode[1] \notin Digits
    /\ \A k \in 1..Len(fieldcode) : fieldcode[k] \in KeyChars

\* lines 167-172: the key of a field code
KeyOf(fieldcode, used) ==
    IF IsAsciiIdentifier(fieldcode) THEN fieldcode
    ELSE make_unique_key(normalize_key(fieldcode), used)

RECURSIVE ClassEnd(_, _)
\* where the characters matched by [^<>]+ from index k on end
ClassEnd(text, k) ==
    IF k <= Len(text) /\ text[k] \notin {"<", ">"} THEN ClassEnd(text, k + 1) ELSE k

RECURSIVE FieldMatches(_, _)
\* re.finditer(r"<<([^<>]+)>>", text) from index k on: group 1 of each match
FieldMatches(text, k) ==
    IF k > Len(text) THEN <<>>
    ELSE LET e == ClassEnd(text, k + 2) IN
         IF HasAt(text, OpenMark, k) /\ e > k + 2 /\ HasAt(text, CloseMark, e)
         THEN <<SubSeq(text, k + 2, e - 1)>> \o FieldMatches(text, e + 2)
         ELSE FieldMatches(text, k + 1)

RECURSIVE Unique(_, _)
\* lines 226-227: each field code once, in the order of first appearance
Unique(found, seen) ==
    IF found = <<>> THEN seen
    ELSE IF \E k \in 1..Len(seen) : seen[k] = Head(found) THEN Unique(Tail(found), seen)
    ELSE Unique(Tail(found), Append(seen, Head(found)))

\* the field codes extract_fieldcodes_and_contexts returns
extract_fieldcodes_and_contexts(rs) == Unique(FieldMatches(JoinRuns(rs), 1), <<>>)

\* the last character of the nearest run before run r that is not empty
LastCharBefore(rs, r) ==
    IF \E k \in 1..(r - 1) : rs[k] # <<>>
    THEN LET k == CHOOSE k \in 1..(r - 1) :
                     rs[k] # <<>> /\ \A j \in (k + 1)..(r - 1) : rs[j] = <<>>
         IN rs[k][Len(rs[k])]
    ELSE ""

\* lines 291-296: the check of run r, with the notes on a mark that may have
\* been split between two runs
FinalCheck(rs, r) ==
    LET c == check_fieldcode_delim(rs[r])
        Suspect(ch) ==
            /\ Bool(c) /\ LastCharBefore(rs, r) = ch
            /\ rs[r] # <<>> /\ rs[r][1] = ch
            /\ ~HasAt(rs[r], <<ch, ch>>, 1)
        WithNote(v, ch, note) == IF Suspect(ch) THEN [v EXCEPT !.parts = Append(@, note)] ELSE v
    IN WithNote(WithNote(c, "<", "Two consecutive '<' signs were found."),
                ">", "Two consecutive '>' signs were found.")

\* The paragraphs: every text of at most MaxText characters over "<", ">"
\* and a letter, and the texts below; each cut into at most MaxRuns runs at
\* any places, a mark included, as a word processor may cut them.
MaxText == 4
MaxRuns == 3

\* <<code>>
Field(code) == OpenMark \o code \o CloseMark

Paragraphs ==
    UNION { [1..n -> {"<", ">", "a"}] : n \in 0..MaxText }
    \cup { Field(<<"a">>),
           <<"x">> \o Field(<<"a">>) \o <<"y">>,
           Field(<<"a">>) \o Field(<<"b">>),
           <<"x", "a">> \o Field(<<"b">>) \o Field(<<"c">>),
           Field(<<"a", " ", "b">>) \o Field(<<"a", "_", "b">>),
           Field(<<"a", " ", "b">>) \o Field(<<"a", "-", "b">>),
           Field(<<"e_acute">>) \o Field(<<"e">>) \o Field(<<"1", "sharp_s">>),
           OpenMark \o Field(<<"a">>) \o CloseMark }

\* the text cut after the characters at the places in cuts
CutAt(text, cuts) ==
    [r \in 1..(Len(cuts) + 1) |->
        SubSeq(text, IF r = 1 THEN 1 ELSE cuts[r - 1] + 1,
                     IF r > Len(cuts) THEN Len(text) ELSE cuts[r])]

\* a paragraph has no run at all, or its text lies in its runs, any of which
\* may be empty
RunsOf(text) ==
    (IF text = <<>> THEN {<<>>} ELSE {})
    \cup { CutAt(text, cuts) :
             cuts \in UNION { { c \in [1..(n - 1) -> 0..Len(text)] :
                                  \A k \in 1..(n - 2) : c[k] <= c[k + 1] } : n \in 1..MaxRuns } }

\* a call of extract_chunks that is not part of the run of templatepreproc.py
NoChunking == StartFrame("t1", Call(PatNone, PatNone, 0, 0, {}), <<>>)

InitTemplate ==
    /\ Load(NoChunking)
    /\ search_results = [t \in TaskIds |-> "none"]
    /\ suspended = NoCall
    /\ \E text \in Paragraphs : runs \in RunsOf(text)
    /\ extract_fieldcodes \in BOOLEAN
    /\ tpc = "start"
    /\ checks = <<>>
    /\ idx = 0
    /\ codeopening = 0
    /\ innerrun_split = <<>>
    /\ fieldcodes = <<>>
    /\ used_keys = {}
    /\ table_keys = <<>>

\* lines 255-260: a paragraph that fails the test ends the call
RejectParagraph ==
    /\ tpc = "start"
    /\ Bool(check_fieldcode_delim(JoinRuns(runs)))
    /\ checks' = <<check_fieldcode_delim(JoinRuns(runs))>>
    /\ tpc' = "returned"
    /\ UNCHANGED <<chunking, runs, extract_fieldcodes, idx, codeopening, innerrun_split,
                   fieldcodes, used_keys, table_keys>>

\* lines 255-270 and 93-95: the paragraph passes, its runs are tested one by
\* one, and preprocess_field_codes starts on it
AcceptParagraph ==
    /\ tpc = "start"
    /\ ~Bool(check_fieldcode_delim(JoinRuns(runs)))
    /\ checks' = [r \in 1..Len(runs) |-> check_fieldcode_delim(runs[r])]
    /\ idx' = 0
    /\ tpc' = "consolidate"
    /\ UNCHANGED <<chunking, runs, extract_fieldcodes, codeopening, innerrun_split,
                   fieldcodes, used_keys, table_keys>>

\* line 99
OpensCode(text) == Contains(text, OpenMark) /\ ~Contains(text, CloseMark)

\* lines 97-99 and 116-117: a run with nothing to do
NextRun ==
    /\ tpc = "consolidate"
    /\ idx < Len(runs) - 1
    /\ ~OpensCode(runs[idx + 1])
    /\ idx' = idx + 1
    /\ UNCHANGED <<chunking, runs, tpc, extract_fieldcodes, checks, codeopening,
                   innerrun_split, fieldcodes, used_keys, table_keys>>

\* lines 97-104: a run opens a field code that it does not close
BeginCode ==
    /\ tpc = "consolidate"
    /\ idx < Len(runs) - 1
    /\ OpensCode(runs[idx + 1])
    /\ codeopening' = idx
    /\ idx' = idx + 1
    /\ LET split == Split1(runs[idx + 2], CloseMark) IN
         /\ innerrun_split' = split
         /\ runs' = [runs EXCEPT ![idx + 1] = @ \o split[1]]
    /\ tpc' = "inner"
    /\ UNCHANGED <<chunking, extract_fieldcodes, checks, fieldcodes, used_keys, table_keys>>

\* lines 106-110: the field code goes on in the next run
ContinueCode ==
    /\ tpc = "inner"
    /\ Len(innerrun_split) <= 1
    /\ idx + 2 <= Len(runs)
    /\ idx' = idx + 1
    /\ LET split == Split1(runs[idx + 2], CloseMark) IN
         /\ innerrun_split' = split
         /\ runs' = [runs EXCEPT ![idx + 1] = <<>>,
                                 ![codeopening + 1] = @ \o split[1]]
    /\ UNCHANGED <<chunking, tpc, extract_fieldcodes, checks, codeopening, fieldcodes,
                   used_keys, table_keys>>

\* lines 106-109: there is no next run, para.runs[i] raises IndexError
PastLastRun ==
    /\ tpc = "inner"
    /\ Len(innerrun_split) <= 1
    /\ idx + 2 > Len(runs)
    /\ idx' = idx + 1
    /\ runs' = [runs EXCEPT ![idx + 1] = <<>>]
    /\ tpc' = "IndexError"
    /\ UNCHANGED <<chunking, extract_fieldcodes, checks, codeopening, innerrun_split,
                   fieldcodes, used_keys, table_keys>>

\* lines 106 and 113-114: the closing mark was found
EndCode ==
    /\ tpc = "inner"
    /\ Len(innerrun_split) > 1
    /\ runs' = [runs EXCEPT ![codeopening + 1] = @ \o CloseMark,
                            ![idx + 1] = innerrun_split[2]]
    /\ tpc' = "consolidate"
    /\ UNCHANGED <<chunking, extract_fieldcodes, checks, idx, codeopening, innerrun_split,
                   fieldcodes, used_keys, table_keys>>

\* line 97: preprocess_field_codes is through with the paragraph
EndPreprocess ==
    /\ tpc = "consolidate"
    /\ idx >= Len(runs) - 1
    /\ tpc' = "realign"
    /\ UNCHANGED <<chunking, runs, extract_fieldcodes, checks, idx, codeopening,
                   innerrun_split, fieldcodes, used_keys, table_keys>>

\* line 279: realign_field_codes
Realign ==
    /\ tpc = "realign"
    /\ runs' = realign_field_codes(runs)
    /\ tpc' = "recheck"
    /\ UNCHANGED <<chunking, extract_fieldcodes, checks, idx, codeopening, innerrun_split,
                   fieldcodes, used_keys, table_keys>>

\* lines 286-318: the runs are tested again; if all pass and -f was given
\* the field codes are extracted for create_fieldcode_docx
Recheck ==
    /\ tpc = "recheck"
    /\ LET cs == [r \in 1..Len(runs) |-> FinalCheck(runs, r)] IN
         /\ checks' = cs
         /\ IF ~AnyTrue(cs) /\ extract_fieldcodes
            THEN /\ tpc' = "keys"
                 /\ fieldcodes' = extract_fieldcodes_and_contexts(runs)
            ELSE /\ tpc' = "returned"
                 /\ UNCHANGED fieldcodes
    /\ used_keys' = {}
    /\ table_keys' = <<>>
    /\ UNCHANGED <<chunking, runs, extract_fieldcodes, idx, codeopening, innerrun_split>>

\* lines 164-202: one row of the table
AddRow ==
    /\ tpc = "keys"
    /\ Len(table_keys) < Len(fieldcodes)
    /\ LET key == KeyOf(fieldcodes[Len(table_keys) + 1], used_keys) IN
         /\ used_keys' = used_keys \cup {key}
         /\ table_keys' = Append(table_keys, key)
    /\ UNCHANGED <<chunking, runs, tpc, extract_fieldcodes, checks, idx, codeopening,
                   innerrun_split, fieldcodes>>

\* lines 204 and 310-318: the table is complete
EndTable ==
    /\ tpc = "keys"
    /\ Len(table_keys) = Len(fieldcodes)
    /\ tpc' = "returned"
    /\ UNCHANGED <<chunking, runs, extract_fieldcodes, checks, idx, codeopening,
                   innerrun_split, fieldcodes, used_keys, table_keys>>

NextTemplate ==
    \/ RejectParagraph
    \/ AcceptParagraph
    \/ NextRun
    \/ BeginCode
    \/ ContinueCode
    \/ PastLastRun
    \/ EndCode
    \/ EndPreprocess
    \/ Realign
    \/ Recheck
    \/ AddRow
    \/ EndTable

SpecTemplate == InitTemplate /\ [][NextTemplate]_vars

\* ------------------------------------------------------------- properties
\* What the history says about the items processed so far.

\* the reconstructed text of an element
RawText(e) == check_and_update_font_properties(e.node, FreshProfile(<<>>)).element_text

\* the reconstructed text plus the trailing space added when it is missing
ExpectedText(e) ==
    LET t == RawText(e) IN
    IF t # <<>> /\ t[Len(t)].c \in {SP, NL} THEN t ELSE t \o <<Run(SP, 1)>>

\* item i was neither skipped as header, footer, small print or empty, nor
\* the point where the call raised: its text went into the buffer
Appended(i) == taken[i] \in {"marker", "heading", "body"}

RECURSIVE KeptText(_)
\* the texts of the appended elements among the first i items, in order
KeptText(i) ==
    IF i = 0 THEN <<>>
    ELSE IF Appended(i) THEN Cat(KeptText(i - 1), ExpectedText(Laid(i)))
    ELSE KeptText(i - 1)

RECURSIVE ChunkText(_)
\* the texts of the first k chunks, in order
ChunkText(k) == IF k = 0 THEN <<>> ELSE Cat(ChunkText(k - 1), chunks[k].text)

\* C1: when extract_chunks has returned, the texts of the emitted chunks, in
\* order, make up exactly the standardised texts of the elements that were
\* not skipped, in document order.
C1_ChunksHoldAllKeptText ==
    pc = "returned" => ChunkText(Len(chunks)) = KeptText(Len(taken))

\* C1 witness: a call has returned several chunks from a document in which
\* elements were skipped and others kept.
C1_Witness ==
    /\ pc = "returned"
    /\ Len(chunks) >= 2
    /\ \E i \in 1..Len(taken) : taken[i] \in {"header", "footer", "small"}
    /\ \E i \in 1..Len(taken) : Appended(i) /\ ~HasGetText(Laid(i).node)

\* C2: every chunk that holds text carries the heading that was current when
\* the first text was added to its buffer.
C2_HeadingAtFirstContent ==
    \A k \in 1..Len(chunks) :
        chunks[k].text # <<>> => chunks[k].heading = emitted_first[k]

\* C2, amended: every chunk carries the heading that is current when the
\* chunk is emitted, as it is before the element that emits the chunk sets
\* a heading of its own.
C2_HeadingAtFlush ==
    [][Len(chunks') > Len(chunks) => chunks'[Len(chunks')].heading = current_heading]_vars

\* C2 witness: a chunk was emitted whose heading is not the one that was
\* current when its first text was added (a heading fired on a buffer that
\* was not empty and not long enough to be flushed).
C2_Witness ==
    \E k \in 1..Len(chunks) :
        chunks[k].text # <<>> /\ chunks[k].heading # emitted_first[k]

\* the first item whose text is in chunk k, and the item that emitted it
ChunkFrom(k) == IF k = 1 THEN 1 ELSE emitted_at[k - 1]
ChunkUpTo(k) == emitted_at[k] - 1

\* C3: every chunk is at most 5000 characters plus the text of one of its
\* elements long; right after a paragraph marker is added the buffer is at
\* most 1400 characters plus the marker's text long, right after a heading at
\* most 500 plus the heading's text.
C3_ChunkLengthBounded ==
    /\ \A k \in 1..Len(chunks) :
          \/ StrLen(chunks[k].text) <= 5000
          \/ \E i \in ChunkFrom(k)..ChunkUpTo(k) :
                /\ Appended(i)
                /\ StrLen(chunks[k].text) <= 5000 + StrLen(ExpectedText(Laid(i)))
    /\ (taken # <<>> /\ taken[Len(taken)] = "marker")
          => StrLen(text_buffer) <= 1400 + StrLen(ExpectedText(Laid(Len(taken))))
    /\ (taken # <<>> /\ taken[Len(taken)] = "heading")
          => StrLen(text_buffer) <= 500 + StrLen(ExpectedText(Laid(Len(taken))))

\* C3 witness: a chunk longer than 5000 characters was emitted, and the last
\* element was a paragraph marker or a heading added to text already there.
C3_Witness ==
    /\ \E k \in 1..Len(chunks) : StrLen(chunks[k].text) > 5000
    /\ taken[Len(taken)] \in {"marker", "heading"}
    /\ StrLen(text_buffer) > StrLen(ExpectedText(Laid(Len(taken))))

\* C4: after two consecutive elements that both took the heading branch,
\* current_heading is the first one's text followed at once by the second's
\* (after a third, the second's followed by the third's), and a chunk
\* emitted by the element that comes next carries that heading.
C4_ConsecutiveHeadingsMerge ==
    /\ (Len(taken) >= 2 /\ taken[Len(taken)] = "heading"
          /\ taken[Len(taken) - 1] = "heading")
          => current_heading = Cat(ExpectedText(Laid(Len(taken) - 1)),
                                   ExpectedText(Laid(Len(taken))))
    /\ \A k \in 1..Len(chunks) :
          (emitted_at[k] >= 3 /\ taken[emitted_at[k] - 1] = "heading"
             /\ taken[emitted_at[k] - 2] = "heading")
          => chunks[k].heading = Cat(ExpectedText(Laid(emitted_at[k] - 2)),
                                     ExpectedText(Laid(emitted_at[k] - 1)))

\* C4 witness: three different headings in a row, then the last buffer
\* emitted under the second and third.
C4_Witness ==
    /\ pc = "returned"
    /\ Len(taken) >= 4
    /\ \A i \in (Len(taken) - 2)..Len(taken) : taken[i] = "heading"
    /\ Laid(Len(taken) - 2) # Laid(Len(taken) - 1)
    /\ Laid(Len(taken) - 1) # Laid(Len(taken))

\* the footer at item i matched footer_pattern
MatchedFooter(i) ==
    /\ taken[i] = "footer"
    /\ Truthy(footer_pattern)
    /\ ReSearch(footer_pattern, GetText(Laid(i).node)).ok

SetMax(S) == CHOOSE x \in S : \A y \in S : y <= x

\* the footers that matched footer_pattern before chunk k was emitted
MatchedBefore(k) ==
    {i \in 1..(emitted_at[k] - 1) : i <= Len(taken) /\ MatchedFooter(i)}

\* the match of the last footer that matched before chunk k was emitted
LastMatch(k) == ReSearch(footer_pattern, GetText(Laid(SetMax(MatchedBefore(k))).node))

\* C5: a chunk emitted after a footer that matched footer_pattern with a
\* string p in group 1, and before the next footer that matches, has
\* page = p.
C5_PageFromLastFooter ==
    \A k \in 1..Len(chunks) :
        (MatchedBefore(k) # {} /\ Len(LastMatch(k).g) >= 1
            /\ LastMatch(k).g[1] # NoneStr)
            => chunks[k].page = LastMatch(k).g[1]

\* C5, amended: a chunk emitted after a footer that matched footer_pattern
\* with a string p that is not empty in group 1, and before the next footer
\* that matches, has page = p.
C5_PageFromLastFooterNotEmpty ==
    \A k \in 1..Len(chunks) :
        (MatchedBefore(k) # {} /\ Len(LastMatch(k).g) >= 1
            /\ LastMatch(k).g[1] \notin {NoneStr, <<>>})
            => chunks[k].page = LastMatch(k).g[1]

\* C5 witness: after a footer gave page "1", a buffer of text was emitted by a
\* later element and carries page "1".
C5_Witness ==
    /\ Len(chunks) >= 2
    /\ chunks[1].text # <<>>
    /\ chunks[1].page = <<Run("1", 1)>>

RECURSIVE PageAt(_)
\* the page that item i is on
PageAt(i) == IF Laid(i).kind = "page" THEN Laid(i) ELSE PageAt(i - 1)

\* item i lies above the header line of its page
AboveHeaderAt(i) ==
    IF top_margin = 0 THEN 100 * Laid(i).y0 > 92 * PageAt(i).height
    ELSE Laid(i).y0 > top_margin

\* item i lies in the footer band of its page
InFooterBandAt(i) ==
    IF bottom_margin = 0 THEN 100 * Laid(i).y1 < 8 * PageAt(i).height
    ELSE Laid(i).y1 < bottom_margin

\* C6: no text of an element that lies in the footer band, and not above the
\* header line, is added to the buffer, whether or not the element has a
\* native text.
C6_FooterNeverAppended ==
    \A i \in 1..Len(taken) :
        (Laid(i).kind = "element" /\ InFooterBandAt(i) /\ ~AboveHeaderAt(i))
            => ~Appended(i)

\* the font profile of the element at item i
ProfileAt(i) == check_and_update_font_properties(Laid(i).node, FreshProfile(<<>>))

\* the centre bucket of item i is a heading bucket and the element is
\* narrower than linelength_limit of its page
AlignedAt(i) ==
    /\ Digitize([num |-> Laid(i).x0 + Laid(i).x1, den |-> 2 * PageAt(i).width])
          \in centers_near_mid_indices
    /\ 10 * (Laid(i).x1 - Laid(i).x0) < 6 * PageAt(i).width

\* the heading predicate of the specification for item i, native being the
\* native text it is compared with
ClaimedHeading(i, native) ==
    LET t == ExpectedText(Laid(i))
        w == ProfileAt(i)
    IN  /\ StrLen(t) > 6
        /\ StrLen(t) < 90
        /\ NormWs(t) = NormWs(native)
        /\ \/ w.fontsize_min > 1300
           \/ (w.font_boldness /\ ~w.font_italicness)
           \/ (w.font_italicness /\ ~w.font_boldness)
           \/ AlignedAt(i)

RECURSIVE LevelTextAt(_)
\* the native text last read when item i is classified: its own, or that of
\* the nearest earlier element below the header line that had one
LevelTextAt(i) ==
    IF i = 0 THEN Unbound
    ELSE IF Laid(i).kind = "element" /\ ~AboveHeaderAt(i) /\ HasGetText(Laid(i).node)
         THEN GetText(Laid(i).node)
    ELSE LevelTextAt(i - 1)

C8_BoldItalicOnlyByAlignment ==
    \A i \in 1..Len(taken) :
        (taken[i] = "heading" /\ ProfileAt(i).font_boldness
            /\ ProfileAt(i).font_italicness)
            => AlignedAt(i)

RECURSIVE RangeText(_, _)
\* the texts of the appended elements among the items lo .. hi, in order
RangeText(lo, hi) ==
    IF hi < lo THEN <<>>
    ELSE IF Appended(hi) THEN Cat(RangeText(lo, hi - 1), ExpectedText(Laid(hi)))
    ELSE RangeText(lo, hi - 1)

Missing(pat) == pat.kind = "none"
Malformed(pat) == pat.kind = "bad"

\* C10: with footer_pattern or paragraphpattern missing or malformed the call
\* does not end in an exception of the regular expression functions; with
\* paragraphpattern missing no element is a paragraph marker, with
\* footer_pattern missing pagenum is never set.
C10_PatternsNeverFatal ==
    /\ (Missing(footer_pattern) \/ Malformed(footer_pattern)
          \/ Missing(paragraphpattern) \/ Malformed(paragraphpattern))
          => error \notin {"TypeError", "re.error"}
    /\ Missing(paragraphpattern) => \A i \in 1..Len(taken) : taken[i] # "marker"
    /\ Missing(footer_pattern) => pagenum = NoneStr

\* the arguments hold a configuration error: a pattern that does not compile,
\* or a negative margin (a margin of 0 is taken as no margin given)
ConfigError ==
    \/ Malformed(footer_pattern) \/ Malformed(paragraphpattern)
    \/ top_margin < 0 \/ bottom_margin < 0

\* the branches in which an element has been scanned and classified
Classified == {"header", "footer", "small", "marker", "heading", "body"}

\* C11: when the arguments hold a configuration error, no element of any
\* page is classified and no chunk is emitted, and the call does not return
\* chunks: the error is reported before any page is processed.
C11_ConfigErrorsRejectedEagerly ==
    ConfigError =>
        /\ \A i \in 1..Len(taken) : taken[i] \notin Classified
        /\ chunks = <<>>
        /\ pc # "returned"

RECURSIVE OwnWidthCentres(_, _, _)
\* the centre of each short text container as a fraction of the width of the
\* page that contains it
OwnWidthCentres(doc, i, width) ==
    IF i > Len(doc) THEN <<>>
    ELSE IF doc[i].kind = "page" THEN OwnWidthCentres(doc, i + 1, doc[i].width)
    ELSE IF IsLTTextContainer(doc[i].node) /\ 2 * (doc[i].x1 - doc[i].x0) < width
         THEN <<[num |-> doc[i].x0 + doc[i].x1, den |-> 2 * width]>>
                 \o OwnWidthCentres(doc, i + 1, width)
         ELSE OwnWidthCentres(doc, i + 1, width)

\* two fractions are the same number
SameFraction(p, q) == p.num * q.den = q.num * p.den

\* C13: after the statistics pass, the values entered into the histogram are
\* the centres of the short text containers, each divided by the width of
\* its own page.
C13_CentresNormalisedByOwnPage ==
    pc # "stats" =>
        LET own == OwnWidthCentres(extract_pages(pdf_path), 1, 0) IN
        /\ Len(center_positions_normalized) = Len(own)
        /\ \A k \in 1..Len(own) : SameFraction(center_positions_normalized[k], own[k])

Took(b) == Len(taken') = Len(taken) + 1 /\ taken'[Len(taken')] = b

\* C15: an element skipped as page header, or as empty or small print,
\* leaves text_buffer, current_heading, prev_consec_heading, pagenum and the
\* chunks as they were.
C15_SkippedElementsChangeNothing ==
    [][(Took("header") \/ Took("small"))
          => UNCHANGED <<text_buffer, current_heading, prev_consec_heading, pagenum,
                         chunks>>]_vars

\* C15 witness: after a heading, a small-print element and then a page
\* header were skipped while the buffer and both headings held text.
C15_Witness ==
    /\ Len(taken) = 4
    /\ taken[2] = "heading" /\ taken[3] = "small" /\ taken[4] = "header"
    /\ text_buffer # <<>> /\ current_heading # <<>> /\ prev_consec_heading # <<>>

\* the string is empty or ends with a space or a newline
EmptyOrEndsWithWs(t) == t = <<>> \/ t[Len(t)].c \in {SP, NL}

\* C16: text_buffer is empty or ends with a space or a newline, and so does
\* the text of every chunk.
C16_TextsEndWithWhiteSpace ==
    /\ EmptyOrEndsWithWs(text_buffer)
    /\ \A k \in 1..Len(chunks) : EmptyOrEndsWithWs(chunks[k].text)

\* C16 witness: a chunk was emitted that holds the text of an element whose
\* reconstructed text does not end with white space, followed by another's.
C16_Witness ==
    \E k \in 1..Len(chunks) :
        \E i \in ChunkFrom(k)..(ChunkUpTo(k) - 1) :
            /\ Appended(i) /\ Appended(i + 1)
            /\ ~EmptyOrEndsWithWs(RawText(Laid(i)))

\* C17: an element that takes the heading branch emits a chunk exactly if
\* the buffer is longer than 500, and then the chunk holds the buffer, the
\* heading and the page as they were; current_heading becomes
\* prev_consec_heading followed by the element's text, prev_consec_heading the
\* element's text, and the text is added to the buffer.
C17_HeadingBranchEffect ==
    [][Took("heading") =>
          LET t == ExpectedText(Cur)
              flush == StrLen(text_buffer) > 500
          IN /\ chunks' = IF flush
                             THEN Append(chunks, [text |-> text_buffer,
                                                  heading |-> current_heading,
                                                  page |-> pagenum, embeddings |-> <<>>])
                             ELSE chunks
             /\ current_heading' = Cat(prev_consec_heading, t)
             /\ prev_consec_heading' = t
             /\ text_buffer' = IF flush THEN t ELSE Cat(text_buffer, t)]_vars

\* C17 witness: a heading found a buffer longer than 500 and emitted it, and
\* the heading that followed was added to the buffer without a chunk.
C17_Witness ==
    /\ Len(taken) = 4
    /\ taken[3] = "heading" /\ taken[4] = "heading"
    /\ Len(chunks) = 1 /\ emitted_at[1] = 3
    /\ StrLen(chunks[1].text) > 500

\* C18: an element that takes the paragraph-marker branch leaves
\* current_heading as it was, emits a chunk exactly if the buffer is longer
\* than 1400, and its text is added to the buffer.
C18_MarkerBranchEffect ==
    [][Took("marker") =>
          LET t == ExpectedText(Cur)
              flush == StrLen(text_buffer) > 1400
          IN /\ current_heading' = current_heading
             /\ chunks' = IF flush
                             THEN Append(chunks, [text |-> text_buffer,
                                                  heading |-> current_heading,
                                                  page |-> pagenum, embeddings |-> <<>>])
                             ELSE chunks
             /\ text_buffer' = IF flush THEN t ELSE Cat(text_buffer, t)]_vars

\* C18 witness: under a heading, a paragraph marker found a buffer longer
\* than 1400 and emitted it; the heading is still the same.
C18_Witness ==
    /\ Len(taken) = 4
    /\ taken[2] = "heading" /\ taken[4] = "marker"
    /\ Len(chunks) = 1 /\ emitted_at[1] = 4
    /\ current_heading = chunks[1].heading /\ current_heading # <<>>

\* the last item before item i whose text was added to the buffer (0: none)
PrevAppended(i) ==
    IF \E k \in 1..(i - 1) : Appended(k)
    THEN SetMax({k \in 1..(i - 1) : Appended(k)}) ELSE 0

\* C19: after a heading whose predecessor among the elements added to the
\* buffer is not a heading (body text or a paragraph marker),
\* current_heading is that heading's text alone.
C19_HeadingsMergeOnlyWhenAdjacent ==
    (taken # <<>> /\ taken[Len(taken)] = "heading"
        /\ PrevAppended(Len(taken)) # 0
        /\ taken[PrevAppended(Len(taken))] # "heading")
        => current_heading = ExpectedText(Laid(Len(taken)))

RECURSIVE CharsOf(_)
RECURSIVE CharsOfKids(_)
\* the glyphs of an element
CharsOf(node) == IF IsLTChar(node) THEN {node} ELSE CharsOfKids(node.kids)
CharsOfKids(kids) ==
    IF kids = <<>> THEN {} ELSE CharsOf(kids[1]) \cup CharsOfKids(Tail(kids))

\* a glyph that is not white space, of size 9 or more, in a font whose name
\* does not contain "Bold"
PlainGlyph(g) ==
    Strip(g.text) # <<>> /\ g.size >= 900 /\ ~Contains(g.fontname, <<"B", "o", "l", "d">>)

\* C20: after the walk of an element font_boldness is false exactly if the
\* element holds a glyph that is not white space, is of size 9 or more, and
\* whose font name does not contain "Bold".
C20_BoldUnlessPlainGlyph ==
    (taken # <<>> /\ taken[Len(taken)] \in {"small", "marker", "heading", "body"})
        => (font_boldness = FALSE
              <=> \E g \in CharsOf(Laid(Len(taken)).node) : PlainGlyph(g))

\* C20 witness: an element with a small glyph in a font that is not bold was
\* walked and is still bold.
C20_Witness ==
    /\ taken # <<>> /\ taken[Len(taken)] = "heading"
    /\ font_boldness = TRUE
    /\ \E g \in CharsOf(Laid(Len(taken)).node) :
          Strip(g.text) # <<>> /\ g.size < 900 /\ ~Contains(g.fontname, <<"B", "o", "l", "d">>)

\* C12: while two calls with different task identifiers are under way, a
\* step of the running call changes neither a local variable of the other
\* call nor the other task's entry of search_results, and interrupting a
\* call changes no local variable of either call and nothing in
\* search_results: each call proceeds as it does alone.
C12_CallsDoNotInterfere ==
    [][/\ task_id' = task_id =>
             /\ suspended' = suspended
             /\ search_results'[suspended.task_id] = search_results[suspended.task_id]
       /\ task_id' # task_id =>
             /\ Frame' = suspended /\ suspended' = Frame
             /\ search_results' = search_results]_vars

\* C12 witness: both calls are in the middle of their documents, each with
\* text in its buffer and its layout analysis reported.
C12_Witness ==
    /\ suspended # NoCall
    /\ task_id # suspended.task_id /\ pdf_path # suspended.pdf_path
    /\ pc = "segment" /\ suspended.pc = "segment"
    /\ text_buffer # <<>> /\ suspended.text_buffer # <<>>
    /\ pos <= Len(pdf_path) /\ suspended.pos <= Len(suspended.pdf_path)
    /\ search_results[task_id] = "layout" /\ search_results[suspended.task_id] = "layout"

RECURSIVE Leaves(_)
RECURSIVE LeavesOfKids(_)
\* the nodes without children of an element tree, depth first, left to right
Leaves(node) == IF node.kids = <<>> THEN <<node>> ELSE LeavesOfKids(node.kids)
LeavesOfKids(kids) ==
    IF kids = <<>> THEN <<>> ELSE Leaves(kids[1]) \o LeavesOfKids(Tail(kids))

\* what one leaf gives to the text: a glyph its text, a line-break marker a
\* space, anything else nothing
LeafPart(leaf) ==
    IF IsLTChar(leaf) THEN leaf.text
    ELSE IF leaf.text = Rep(NL, 1) THEN Rep(SP, 1)
    ELSE <<>>

RECURSIVE LeafText(_)
LeafText(leaves) ==
    IF leaves = <<>> THEN <<>> ELSE Cat(LeafPart(leaves[1]), LeafText(Tail(leaves)))

\* C21: after the walk of an element, element_text is the concatenation,
\* depth first and left to right, of the text of each glyph leaf, with one
\* space for each node that is not a glyph and whose text is exactly a
\* newline; containers give only what their children give.  (Past the
\* small-print test the trailing space of lines 182-184 is added to it.)
C21_TextIsLeavesInOrder ==
    (taken # <<>> /\ taken[Len(taken)] \in {"small", "marker", "heading", "body"})
        => LET t == LeafText(Leaves(Laid(Len(taken)).node)) IN
           element_text = IF taken[Len(taken)] = "small" \/ EndsWithWs(t)
                          THEN t ELSE Cat(t, Rep(SP, 1))

\* C21 witness: an element with two runs of glyphs, an annotation that is a
\* blank between them and a line-break marker at its end was walked; the
\* blank is dropped and the marker is a space.
C21_Witness ==
    /\ taken # <<>> /\ taken[Len(taken)] \in {"heading", "body"}
    /\ LET l == Leaves(Laid(Len(taken)).node) IN
          /\ Len(l) = 4
          /\ IsLTChar(l[1]) /\ ~IsLTChar(l[2]) /\ l[2].text = Rep(SP, 1)
          /\ IsLTChar(l[3]) /\ ~IsLTChar(l[4]) /\ l[4].text = Rep(NL, 1)
          /\ element_text = Cat(Cat(l[1].text, l[3].text), Rep(SP, 1))

\* item i was handed to check_and_update_font_properties
WalkedAt(i) ==
    \/ taken[i] \in {"small", "marker", "heading", "body"}
    \/ taken[i] = "raise" /\ error = "UnboundLocalError"

RECURSIVE GlyphFonts(_)
\* the font names of the glyphs among the leaves, one per glyph leaf
GlyphFonts(leaves) ==
    IF leaves = <<>> THEN <<>>
    ELSE IF IsLTChar(leaves[1]) THEN <<leaves[1].fontname>> \o GlyphFonts(Tail(leaves))
    ELSE GlyphFonts(Tail(leaves))

RECURSIVE WalkedFonts(_)
\* the font names of the glyphs aggregated among the first i items, in order
WalkedFonts(i) ==
    IF i = 0 THEN <<>>
    ELSE IF WalkedAt(i) THEN WalkedFonts(i - 1) \o GlyphFonts(Leaves(Laid(i).node))
    ELSE WalkedFonts(i - 1)

\* where the name n comes first in the sequence g
FirstAt(g, n) == CHOOSE k \in 1..Len(g) : g[k] = n /\ \A j \in 1..(k - 1) : g[j] # n

\* C22: font_names holds no name twice, holds exactly the font names of the
\* glyphs aggregated so far, in the order in which they first appeared, and
\* a step only ever extends it at its end.
C22_FontNamesInOrderOfFirstAppearance ==
    /\ [](LET g == WalkedFonts(Len(taken)) IN
            /\ \A i, j \in 1..Len(font_names) : i # j => font_names[i] # font_names[j]
            /\ {font_names[i] : i \in 1..Len(font_names)} = {g[k] : k \in 1..Len(g)}
            /\ \A i, j \in 1..Len(font_names) :
                  i < j => FirstAt(g, font_names[i]) < FirstAt(g, font_names[j]))
    /\ [][/\ Len(font_names') >= Len(font_names)
          /\ SubSeq(font_names', 1, Len(font_names)) = font_names]_vars

\* C22 witness: two font names are listed, and more than two glyph runs
\* were aggregated: a name seen again was not added again.
C22_Witness ==
    /\ Len(font_names) = 2
    /\ LET g == WalkedFonts(Len(taken)) IN
          /\ Len(g) > 3
          /\ g[1] = g[2] /\ g[Len(g)] = g[1] /\ \E k \in 1..Len(g) : g[k] # g[1]

\* the marks are none, or open and close by turns from an opening mark to a
\* closing mark
Alternates(marks) ==
    \/ marks = <<>>
    \/ /\ \A k \in 1..Len(marks) : marks[k] = IF k % 2 = 1 THEN "<<" ELSE ">>"
       /\ marks[Len(marks)] = ">>"

\* the result is False exactly if the marks of the text alternate, and a
\* message that is not empty if they do not
Settles(result, text) ==
    /\ result = PyFalse <=> Alternates(Chevrons(text, 1))
    /\ result # PyFalse => result.isstr /\ result.parts # <<>>

\* the call has tested the runs as they are now
RunsTested ==
    \/ tpc = "consolidate" /\ idx = 0
    \/ tpc = "keys"
    \/ tpc = "returned" /\ Len(checks) = Len(runs) /\ ~Bool(check_fieldcode_delim(JoinRuns(runs)))

\* C23: check_fieldcode_delim returns False exactly if the '<<' and '>>'
\* marks found left to right in the text are none or alternate strictly from
\* a '<<' to a '>>'; otherwise it returns an error string that is not empty.
\* This holds of the result for the paragraph and of the results for its
\* runs, before the fixes and after them.
C23_FalseIffMarksAlternate ==
    /\ (tpc = "returned" /\ Bool(check_fieldcode_delim(JoinRuns(runs))))
          => /\ Len(checks) = 1
             /\ Settles(checks[1], JoinRuns(runs))
             /\ ~Alternates(Chevrons(JoinRuns(runs), 1))
    /\ RunsTested
          => /\ Len(checks) = Len(runs)
             /\ Alternates(Chevrons(JoinRuns(runs), 1))
             /\ \A r \in 1..Len(runs) : Settles(checks[r], runs[r])

\* C23 witness: of the runs tested one has two field codes and passes, one
\* has an opening mark alone and one starts with a closing mark, and these
\* two do not pass.
C23_Witness ==
    /\ RunsTested
    /\ \E r \in 1..Len(runs) : checks[r] = PyFalse /\ Len(Chevrons(runs[r], 1)) = 4
    /\ \E r \in 1..Len(runs) : Bool(checks[r]) /\ Chevrons(runs[r], 1) = <<"<<">>
    /\ \E r \in 1..Len(runs) : Bool(checks[r]) /\ Chevrons(runs[r], 1) = <<">>">>

\* C24: when preprocess_field_codes is through with a paragraph whose text
\* passes check_fieldcode_delim, no field code spans runs: the text of every
\* run passes check_fieldcode_delim on its own.
C24_NoCodeSpansRuns ==
    tpc = "realign" => \A r \in 1..Len(runs) : ~Bool(check_fieldcode_delim(runs[r]))

\* C25: on a paragraph whose text passes check_fieldcode_delim, however it is
\* cut into runs, preprocess_field_codes never indexes past the last run.
C25_NeverPastLastRun == tpc # "IndexError"

\* C26: after realign_field_codes every run other than the first whose text
\* contains '<<' begins with '<<'.
C26_CodesAtStartOfRun ==
    tpc = "recheck"
        => \A r \in 2..Len(runs) : Contains(runs[r], OpenMark) => HasAt(runs[r], OpenMark, 1)

\* C27: the field codes handed to create_fieldcode_docx are pairwise
\* distinct, and the keys written into the rows are pairwise distinct.
C27_KeysDistinct ==
    /\ \A j, k \in 1..Len(fieldcodes) : j # k => fieldcodes[j] # fieldcodes[k]
    /\ \A j, k \in 1..Len(table_keys) : j # k => table_keys[j] # table_keys[k]

\* C28: every chunk emitted before the end of the document has a text longer
\* than 500 characters; when the call has returned, a chunk whose text is
\* empty or at most 500 characters long is the last one.
C28_OnlyLastChunkShort ==
    /\ \A k \in 1..Len(chunks) :
          emitted_at[k] # Len(pdf_path) + 1 => StrLen(chunks[k].text) > 500
    /\ pc = "returned"
          => \A k \in 1..Len(chunks) : StrLen(chunks[k].text) <= 500 => k = Len(chunks)

\* C28 witness: the call has returned a chunk that a heading emitted, longer
\* than 500 characters and shorter than the other limits, and after it a
\* last chunk of fewer than 500 characters.
C28_Witness ==
    /\ pc = "returned"
    /\ Len(chunks) = 2
    /\ taken[emitted_at[1]] = "heading"
    /\ StrLen(chunks[1].text) > 500 /\ StrLen(chunks[1].text) <= 1400
    /\ StrLen(chunks[2].text) > 0 /\ StrLen(chunks[2].text) < 500

\* the text of the footer matched footer_pattern and no group of the match
\* holds a page number
MatchedNoNumber(e) ==
    /\ Truthy(footer_pattern)
    /\ LET pgnum == ReSearch(footer_pattern, GetText(e.node)) IN
         pgnum.ok /\ \A k \in 1..Len(pgnum.g) : pgnum.g[k] \in {NoneStr, <<>>}

\* C29: once pagenum is not None it never becomes None again, and a footer
\* whose match has no page number in any group leaves pagenum as it was.
C29_PageNumberNeverLost ==
    [][/\ pagenum # NoneStr => pagenum' # NoneStr
       /\ (Took("footer") /\ MatchedNoNumber(Cur)) => pagenum' = pagenum]_vars

====
